---- MODULE Spec2Model ----
(***************************************************************************)
(* CovertMark: the detection-strategy framework (strategy/strategy.py),    *)
(* the traffic-statistics library (analytics/traffic.py) and the SDG       *)
(* strategy's sweep (strategy/sdg.py), as state machines.                  *)
(***************************************************************************)
EXTENDS Integers, Sequences, FiniteSets, TLC

VARIABLES
    env,        \* lifecycle: what the run is given (constructor and run arguments, trace store, module namespace)
    strat,      \* lifecycle: the DetectionStrategy instance's fields
    pc,         \* lifecycle: position inside DetectionStrategy.run
    result,     \* lifecycle: what run returned or raised
    heap,       \* traffic: the packet records (Python dicts) by identity
    packets,    \* traffic: the packet list handed to the library, a sequence of identities
    heap0,      \* traffic: the packet records as they were loaded
    op,         \* traffic: the library calls made so far, with their arguments
    out,        \* traffic: what the last call returned or raised
    sdg,        \* sweep: the SDGStrategy instance's fields and run's position in its sweep
    eds,        \* sweep: the EntropyStrategy instance's fields and what run_strategy returned
    lcs         \* sweep: the LengthClusteringStrategy instance's fields and what run_strategy returned

lifecycleVars == <<env, strat, pc, result>>
trafficVars == <<heap, packets, heap0, op, out>>
sweepVars == <<sdg, eds, lcs>>
vars == <<env, strat, pc, result, heap, packets, heap0, op, out, sdg, eds, lcs>>

(***************************************************************************)
(* Bounds of the model.                                                    *)
(***************************************************************************)
MaxTraces == 2      \* packets held by one collection of the trace store
MaxLen == 3         \* packets in a list handed to the traffic library
MaxTime == 5        \* latest packet time, in ticks
TicksPerMicro == 2  \* resolution of a packet's time: ticks per microsecond
MaxDelta == 2       \* longest time window, in microseconds
MaxWin == 3         \* largest fixed window size
MaxSyncs == 2       \* consecutive synchronise calls on one list
MaxSyncLen == 2     \* packets in a list handed to synchronise
MaxTarget == 2      \* latest target time of a synchronise call, in ticks
MaxGroupLen == 2    \* packets in a list handed to the client grouping
MaxClients == 2     \* entries of a clients list
MantissaBits == 2   \* significant bits of a float (53 in CPython)
MaxPositive == 2    \* feature rows of the positive class
MaxNegative == 2    \* feature rows of the negative class
NUM_RUNS == 2       \* train/validate runs per percentile (5 in sdg.py)
MaxWindow == 2      \* packets in a window handed to get_window_stats
MaxClusterLen == 3   \* packets in a list handed to the length clustering
MaxEntropyPositive == 1  \* positive traces of the entropy strategy
MaxEntropyNegative == 1  \* negative traces of the entropy strategy
MaxLengthPositive == 3   \* positive traces of the length clustering strategy
MaxLengthNegative == 1   \* negative traces of the length clustering strategy
MaxTally == 2        \* validation rows of one class in a run of the counted sweep
MaxPolicyPositive == 2   \* positive traces, when only their TLS and HTTP info varies
MaxPolicyNegative == 1   \* negative traces, when only their TLS and HTTP info varies

None == "None"

(***************************************************************************)
(* strategy/strategy.py: DetectionStrategy                                 *)
(***************************************************************************)

\* The rates a subclass's positive_run / negative_run may return.
Rates == {"0.0", "0.5", "1.0"}

\* The free names the methods read that the module never binds: Python looks
\* a free name up in the module's globals when the statement runs and raises
\* NameError when it is unbound.
FreeNames == {"pt_filters", "_MONGO_KEY", "test_proportion"}

\* The strategic filters a subclass may set: {} and {"tcp_info": {"$ne": None}}.
Filters == {"all", "tcp"}

\* Retriever.retrieve(trace_filter=...) on a collection: the number of stored
\* packets the filter lets through.
Retrieve(coll, f) == IF f = "all" THEN coll.total ELSE coll.tcp

\* DetectionStrategy.__init__
NewStrategy(negative_pcap) ==
    [ neg_parser                  |-> negative_pcap,
      pt_collection               |-> None,
      neg_collection              |-> None,
      pt_collection_total         |-> 0,
      neg_collection_total        |-> 0,
      traces_loaded               |-> FALSE,
      pt_traces                   |-> 0,      \* len(self._pt_traces)
      pt_split                    |-> FALSE,
      neg_traces                  |-> 0,      \* len(self._neg_traces)
      strategic_packet_filter     |-> "all",
      true_positive_rate          |-> None,
      false_positive_rate         |-> None,
      negative_unique_ips         |-> 0,
      \* history of the calls made so far, and what the subclass's runs returned
      calls                       |-> << >>,
      posRet                      |-> None,
      negRet                      |-> None ]

Log(s, what) == [s EXCEPT !.calls = Append(@, what)]

\* _load_into_memory: the strategy after the call (its return value is
\* s.traces_loaded of the result when it was not loaded before).
LoadIntoMemory(s) ==
    LET s1 == [Log(s, "load") EXCEPT
                  !.pt_traces = Retrieve(env.pt_store, s.strategic_packet_filter),
                  !.pt_collection_total = env.pt_store.total]
    IN  IF s1.pt_traces = 0 THEN s1
        ELSE IF s1.neg_collection = None THEN [s1 EXCEPT !.traces_loaded = TRUE]
        ELSE LET s2 == [s1 EXCEPT
                           !.neg_traces = Retrieve(env.neg_store, s.strategic_packet_filter),
                           !.neg_collection_total = env.neg_store.total]
             IN  IF s2.neg_traces = 0 THEN s2
                 ELSE [s2 EXCEPT !.traces_loaded = TRUE]

\* "if not self._traces_loaded: self._load_into_memory()"
EnsureLoaded(s) == IF ~s.traces_loaded THEN LoadIntoMemory(s) ELSE s

\* "not self._xx_collection": None and False are both falsy.
Falsy(c) == c \in {None, "False"}

\* _run_on_positive with positive_run returning rate r: the strategy after
\* the call.  The method has no return statement on this path: it returns None.
RunOnPositive(s, r) ==
    IF Falsy(s.pt_collection) THEN s
    ELSE [Log(EnsureLoaded(s), "positive_run") EXCEPT
             !.true_positive_rate = r, !.posRet = r]

RunOnPositiveReturn(s) == IF Falsy(s.pt_collection) THEN "False" ELSE None

\* _run_on_negative with negative_run returning rate r and the reader
\* reporting d distinct destination addresses.
RunOnNegative(s, r, d) ==
    IF Falsy(s.neg_collection) THEN s
    ELSE [Log(EnsureLoaded(s), "negative_run") EXCEPT
             !.negative_unique_ips = d,
             !.false_positive_rate = r, !.negRet = r]

RunOnNegativeReturn(s) == IF Falsy(s.neg_collection) THEN "False" ELSE None

\* _split_pt up to the call of test_validation_split, and after it.
SplitPt(s) == [Log(EnsureLoaded(s), "split") EXCEPT !.pt_split = TRUE]

\* NextStep with the split placed after the positive run.
NextStepSplitLate(p, s) ==
    CASE p = "parse"    -> "filter"
      [] p = "filter"   -> "load"
      [] p = "load"     -> "positive"
      [] p = "positive" -> IF env.pt_split /\ ~s.pt_split THEN "split"
                           ELSE IF s.neg_collection # None THEN "negative" ELSE "return"
      [] p = "split"    -> IF s.neg_collection # None THEN "negative" ELSE "return"
      [] p = "negative" -> "return"
      [] OTHER          -> "done"

\* The order of run's statements: the step that follows step p.
NextStep(p, s) ==
    CASE p = "parse"    -> "filter"
      [] p = "filter"   -> "load"
      [] p = "load"     -> IF env.pt_split THEN "split" ELSE "positive"
      [] p = "split"    -> "positive"
      [] p = "positive" -> IF s.neg_collection # None THEN "negative" ELSE "return"
      [] p = "negative" -> "return"
      [] OTHER          -> "done"

Raise(e) ==
    /\ pc' = "raised"
    /\ result' = [kind |-> "raise", value |-> e]

Stores == { c \in [total : 1..MaxTraces, tcp : 0..MaxTraces] : c.tcp <= c.total }

LifecycleStart ==
    /\ env \in [ bound        : SUBSET FreeNames,
                 negative_pcap : BOOLEAN,
                 pt_split     : BOOLEAN,
                 pt_store     : Stores,
                 neg_store    : Stores ]
    /\ strat = NewStrategy(env.negative_pcap)
    /\ pc = "parse"
    /\ result = [kind |-> "none", value |-> None]

\* run, lines 199-204: _parse_packets(pt_filters, ...), RuntimeError on failure.
RunParse ==
    /\ pc = "parse"
    /\ IF "pt_filters" \notin env.bound \/ "_MONGO_KEY" \notin env.bound
       THEN /\ Raise("NameError")
            /\ UNCHANGED strat
       ELSE \E ptOk \in BOOLEAN, negOk \in BOOLEAN :
              LET s1 == [Log(strat, "parse") EXCEPT
                            !.pt_collection = IF ptOk THEN "pt" ELSE "False"]
                  s2 == IF strat.neg_parser
                        THEN [s1 EXCEPT !.neg_collection = IF negOk THEN "neg" ELSE "False"]
                        ELSE s1
                  ok == IF strat.neg_parser
                        THEN ~Falsy(s2.pt_collection) /\ ~Falsy(s2.neg_collection)
                        ELSE ~Falsy(s2.pt_collection)
              IN  /\ strat' = s2
                  /\ IF ok
                     THEN /\ pc' = NextStep("parse", s2)
                          /\ UNCHANGED result
                     ELSE Raise("RuntimeError")
    /\ UNCHANGED env
    /\ UNCHANGED <<trafficVars, sweepVars>>

\* run, lines 206-207: the subclass's set_strategic_filter assigns the filter.
RunSetFilter ==
    /\ pc = "filter"
    /\ \E f \in Filters :
          strat' = [Log(strat, "set_filter") EXCEPT !.strategic_packet_filter = f]
    /\ pc' = NextStep("filter", strat')
    /\ UNCHANGED <<env, result>>
    /\ UNCHANGED <<trafficVars, sweepVars>>

\* run, lines 209-210: the return value of _load_into_memory is dropped.
RunLoad ==
    /\ pc = "load"
    /\ strat' = LoadIntoMemory(strat)
    /\ pc' = NextStep("load", strat')
    /\ UNCHANGED <<env, result>>
    /\ UNCHANGED <<trafficVars, sweepVars>>

\* run, lines 212-214, and _split_pt.
RunSplit ==
    /\ pc = "split"
    /\ IF "test_proportion" \notin env.bound
       THEN /\ strat' = EnsureLoaded(strat)
            /\ Raise("NameError")
       ELSE /\ strat' = SplitPt(strat)
            /\ pc' = NextStep("split", strat')
            /\ UNCHANGED result
    /\ UNCHANGED env
    /\ UNCHANGED <<trafficVars, sweepVars>>

\* run, lines 216-217: the stored rate is overwritten by what _run_on_positive returns.
RunPositive ==
    /\ pc = "positive"
    /\ \E r \in Rates :
          LET s1 == RunOnPositive(strat, r)
          IN  strat' = [s1 EXCEPT !.true_positive_rate = RunOnPositiveReturn(strat)]
    /\ pc' = NextStep("positive", strat')
    /\ UNCHANGED <<env, result>>
    /\ UNCHANGED <<trafficVars, sweepVars>>

\* run, lines 219-221.
RunNegative ==
    /\ pc = "negative"
    /\ \E r \in Rates, d \in 1..MaxTraces :
          LET s1 == RunOnNegative(strat, r, d)
          IN  strat' = [s1 EXCEPT !.false_positive_rate = RunOnNegativeReturn(strat)]
    /\ pc' = NextStep("negative", strat')
    /\ UNCHANGED <<env, result>>
    /\ UNCHANGED <<trafficVars, sweepVars>>

\* run, line 223.
RunReturn ==
    /\ pc = "return"
    /\ pc' = "done"
    /\ result' = [kind |-> "return",
                  value |-> <<strat.true_positive_rate, strat.false_positive_rate>>]
    /\ UNCHANGED <<env, strat>>
    /\ UNCHANGED <<trafficVars, sweepVars>>

LifecycleNext ==
    \/ RunParse
    \/ RunSetFilter
    \/ RunLoad
    \/ RunSplit
    \/ RunPositive
    \/ RunNegative
    \/ RunReturn

(***************************************************************************)
(* analytics/traffic.py                                                    *)
(***************************************************************************)
Return(v) == [kind |-> "return", value |-> v]
Raised(e) == [kind |-> "raise", value |-> e]

Min(a, b) == IF a <= b THEN a ELSE b

\* packets[i:j] of Python, i and j counted from 0.
Slice(ps, i, j) == SubSeq(ps, i + 1, Min(j, Len(ps)))

\* range(0, stop, step) of Python for step > 0, as the sequence of its values.
Range0(stop, step) ==
    LET n == IF stop <= 0 THEN 0 ELSE (stop + step - 1) \div step
    IN  [k \in 1..n |-> (k - 1) * step]

\* window_packets_fixed_size with every remainder kept.
WindowPacketsFixedSizeKeep(ps, window_size) ==
    IF window_size < 1 THEN Raised("ValueError")
    ELSE IF Len(ps) < window_size THEN Return(<< >>)
    ELSE LET starts == Range0(Len(ps), window_size)
         IN  Return([k \in DOMAIN starts |-> Slice(ps, starts[k], starts[k] + window_size)])

\* window_packets_fixed_size(packets, window_size)
WindowPacketsFixedSize(ps, window_size) ==
    IF window_size < 1 THEN Raised("ValueError")
    ELSE IF Len(ps) < window_size THEN Return(<< >>)
    ELSE LET starts   == Range0(Len(ps), window_size)
             segments == [k \in DOMAIN starts |->
                             Slice(ps, starts[k], starts[k] + window_size)]
         IN  IF Len(segments[Len(segments)]) # window_size
             THEN Return(SubSeq(segments, 1, Len(segments) - 1))
             ELSE Return(segments)

\* sorted(packets, key=itemgetter('time')): a stable insertion of each packet
\* after the packets that are not later than it.
RECURSIVE InsertByTime(_, _, _)
InsertByTime(h, sorted, p) ==
    IF sorted = << >> THEN <<p>>
    ELSE IF h[sorted[Len(sorted)]].time <= h[p].time THEN Append(sorted, p)
    ELSE Append(InsertByTime(h, SubSeq(sorted, 1, Len(sorted) - 1), p), sorted[Len(sorted)])

RECURSIVE SortedByTime(_, _)
SortedByTime(h, ps) ==
    IF ps = << >> THEN << >>
    ELSE InsertByTime(h, SortedByTime(h, SubSeq(ps, 1, Len(ps) - 1)), ps[Len(ps)])

\* int(float(t) * 1000000): whole microseconds of a time given in ticks.
Micros(t) == t \div TicksPerMicro

TimesOf(h, ps) == { h[ps[i]].time : i \in DOMAIN ps }
MinTime(h, ps) == CHOOSE t \in TimesOf(h, ps) : \A u \in TimesOf(h, ps) : t <= u
MaxTimeOf(h, ps) == CHOOSE t \in TimesOf(h, ps) : \A u \in TimesOf(h, ps) : u <= t

\* float(packet['time']) * 1000000 - min_time, in ticks.
ShiftedTicks(h, p, min_time) == h[p].time - min_time * TicksPerMicro

\* InWindow with the interval closed on the right instead of the left.
InWindowClosedRight(c, packet_t, window) ==
    /\ c * window * TicksPerMicro < packet_t
    /\ packet_t <= (c + 1) * window * TicksPerMicro

\* ts[c][0] <= packet_t < ts[c][1], windows counted from 0.
InWindow(c, packet_t, window) ==
    /\ c * window * TicksPerMicro <= packet_t
    /\ packet_t < (c + 1) * window * TicksPerMicro

\* The while loop of lines 162-163: the segment the packet lands in.
RECURSIVE AdvanceSegment(_, _, _, _)
AdvanceSegment(c, c_max, packet_t, window) ==
    IF ~InWindow(c, packet_t, window) /\ c < c_max
    THEN AdvanceSegment(c + 1, c_max, packet_t, window)
    ELSE c

\* The for loop of lines 160-164 from packet i on; segments are counted from 1 here.
RECURSIVE FillSegments(_, _, _, _, _, _, _)
FillSegments(h, ps, i, c, segments, min_time, window) ==
    IF i > Len(ps) THEN segments
    ELSE LET c2 == AdvanceSegment(c, Len(segments) - 1,
                                  ShiftedTicks(h, ps[i], min_time), window)
         IN  FillSegments(h, ps, i + 1, c2,
                          [segments EXCEPT ![c2 + 1] = Append(@, ps[i])],
                          min_time, window)

\* DurationTooSmall with the comparison made inclusive.
DurationTooSmallIncl(end_time, window) == end_time <= window

\* line 152: "if (max_time - min_time) < chronological_window"
DurationTooSmall(end_time, window) == end_time < window

\* window_packets_time_series(packets, chronological_window, sort)
WindowPacketsTimeSeries(h, ps0, window, sort) ==
    LET ps == IF sort THEN SortedByTime(h, ps0) ELSE ps0
    IN  IF ps = << >> THEN Raised("ValueError")      \* min() of an empty list
        ELSE LET min_time == Micros(MinTime(h, ps))
                 max_time == Micros(MaxTimeOf(h, ps))
                 end_time == max_time - min_time
             IN  IF DurationTooSmall(end_time, window) THEN Return(<< >>)
                 ELSE LET ts == Range0(end_time, window)
                      IN  Return(FillSegments(h, ps, 1, 0, [k \in DOMAIN ts |-> << >>],
                                              min_time, window))

\* Python's float, scaled down to MantissaBits significant bits: Ulp(a) is the
\* spacing of the floats around magnitude a, in ticks.
RECURSIVE Ulp(_)
Ulp(a) == IF a < 2 ^ MantissaBits THEN 1 ELSE 2 * Ulp(a \div 2)

\* The float nearest to magnitude a, ties to the even mantissa.
RoundNat(a) ==
    LET u  == Ulp(a)
        lo == (a \div u) * u
        r  == a - lo
    IN  IF 2 * r < u THEN lo
        ELSE IF 2 * r > u THEN lo + u
        ELSE IF (lo \div u) % 2 = 0 THEN lo ELSE lo + u

\* float(x), and the result of one float operation whose exact value is x.
FloatOf(x) == IF x >= 0 THEN RoundNat(x) ELSE 0 - RoundNat(0 - x)

\* The shift synchronise_packets applies: target_time - packets[0]['time'].
SyncDiff(h, ps, target_time) == FloatOf(target_time - FloatOf(h[ps[1]].time))

\* synchronise_packets(packets, target_time, sort): the list it returns.
SynchroniseReturn(h, ps0, target, sort) ==
    IF ~target.isfloat THEN Raised("ValueError")
    ELSE IF ps0 = << >> THEN Return(<< >>)
    ELSE Return(IF sort THEN SortedByTime(h, ps0) ELSE ps0)

\* synchronise_packets: the packet records after the call; line 562 assigns
\* to the 'time' key of the very records it was passed.
SynchroniseHeap(h, ps0, target, sort) ==
    IF ~target.isfloat \/ ps0 = << >> THEN h
    ELSE LET ps   == IF sort THEN SortedByTime(h, ps0) ELSE ps0
             diff == SyncDiff(h, ps, target.v)
         IN  [id \in DOMAIN h |->
                 IF \E i \in DOMAIN ps : ps[i] = id
                 THEN [h[id] EXCEPT !.time = FloatOf(FloatOf(@) + diff)]
                 ELSE h[id]]

\* Addresses, and the subnets over them: single hosts and the block {0, 1}.
Addrs == {0, 1, 2}
Subnets == [base : Addrs, size : {1}] \cup {[base |-> 0, size |-> 2]}

\* data.utils.build_subnet on a textual address: the one-host subnet.
BuildSubnet(ip) == [base |-> ip, size |-> 1]

\* subnet.overlaps(other)
Overlaps(a, b) ==
    \E x \in Addrs : /\ a.base <= x /\ x < a.base + a.size
                     /\ b.base <= x /\ x < b.base + b.size

\* str(subnet): address and prefix size, distinct for distinct subnets.
Str(sub) == <<sub.base, sub.size>>

\* GroupKey with the destination tested before the source.
GroupKeyDstFirst(pkt, clients) ==
    LET srcnet == BuildSubnet(pkt.src)
        dstnet == BuildSubnet(pkt.dst)
        hits   == { i \in DOMAIN clients :
                      Overlaps(clients[i], srcnet) \/ Overlaps(clients[i], dstnet) }
    IN  IF hits = {} THEN [matched |-> FALSE, key |-> << >>]
        ELSE LET i == CHOOSE i \in hits : \A j \in hits : i <= j
             IN  IF Overlaps(clients[i], dstnet)
                 THEN [matched |-> TRUE, key |-> <<Str(dstnet), pkt.src>>]
                 ELSE [matched |-> TRUE, key |-> <<Str(srcnet), pkt.dst>>]

\* Lines 192-211: the dictionary key a packet is filed under, if any.
GroupKey(pkt, clients) ==
    LET srcnet == BuildSubnet(pkt.src)
        dstnet == BuildSubnet(pkt.dst)
        hits   == { i \in DOMAIN clients :
                      Overlaps(clients[i], srcnet) \/ Overlaps(clients[i], dstnet) }
    IN  IF hits = {} THEN [matched |-> FALSE, key |-> << >>]
        ELSE LET i == CHOOSE i \in hits : \A j \in hits : i <= j
             IN  IF Overlaps(clients[i], srcnet)
                 THEN [matched |-> TRUE, key |-> <<Str(srcnet), pkt.dst>>]
                 ELSE [matched |-> TRUE, key |-> <<Str(dstnet), pkt.src>>]

\* The packets of ps filed under key k, in list order.
RECURSIVE FiledUnder(_, _, _, _)
FiledUnder(h, ps, clients, k) ==
    IF ps = << >> THEN << >>
    ELSE LET rest == FiledUnder(h, SubSeq(ps, 1, Len(ps) - 1), clients, k)
             g    == GroupKey(h[ps[Len(ps)]], clients)
         IN  IF g.matched /\ g.key = k THEN Append(rest, ps[Len(ps)]) ELSE rest

\* Lines 214-217: a group cut into windows, a short last window discarded.
SegmentGroup(group, window_size) ==
    LET starts   == Range0(Len(group), window_size)
        segments == [k \in DOMAIN starts |->
                        Slice(group, starts[k], starts[k] + window_size)]
    IN  IF Len(segments[Len(segments)]) < window_size
        THEN SubSeq(segments, 1, Len(segments) - 1)
        ELSE segments

\* group_packets_by_ip_fixed_size(packets, clients, window_size)
GroupPacketsByIpFixedSize(h, ps, clients, window_size) ==
    IF Len(clients) < 1 THEN Return(<< >>)
    ELSE LET keys == { GroupKey(h[ps[i]], clients).key :
                          i \in { j \in DOMAIN ps : GroupKey(h[ps[j]], clients).matched } }
         IN  Return([k \in keys |->
                        SegmentGroup(FiledUnder(h, ps, clients, k), window_size)])

AddressedPackets == { p \in [time : {0}, src : Addrs, dst : Addrs] : p.src # p.dst }

\* A chronologically ordered list of up to MaxGroupLen packets with arbitrary addresses.
AddressedInit ==
    /\ \E n \in 0..MaxGroupLen :
          \E ends \in [1..n -> AddressedPackets] :
             heap = [i \in 1..n |-> [ends[i] EXCEPT !.time = i * TicksPerMicro]]
    /\ packets = [i \in DOMAIN heap |-> i]
    /\ heap0 = heap
    /\ op = << >>
    /\ out = Return(None)

ClientLists == UNION { [1..n -> Subnets] : n \in 0..MaxClients }

Targets == [isfloat : {TRUE}, v : 0..MaxTarget] \cup {[isfloat |-> FALSE, v |-> 0]}

TimedPackets == [time : 0..MaxTime, src : {0}, dst : {1}]

TrafficIdle ==
    /\ heap = << >>
    /\ packets = << >>
    /\ heap0 = << >>
    /\ op = << >>
    /\ out = Return(None)

LifecycleIdle ==
    /\ env = [bound |-> {}, negative_pcap |-> FALSE, pt_split |-> FALSE,
              pt_store |-> [total |-> 1, tcp |-> 1], neg_store |-> [total |-> 1, tcp |-> 1]]
    /\ strat = NewStrategy(FALSE)
    /\ pc = "idle"
    /\ result = [kind |-> "none", value |-> None]

\* A list of up to maxlen packets with arbitrary times, in list order.
TimedInit(maxlen) ==
    /\ \E n \in 0..maxlen : heap \in [1..n -> TimedPackets]
    /\ packets = [i \in DOMAIN heap |-> i]
    /\ heap0 = heap
    /\ op = << >>
    /\ out = Return(None)

WindowFixed ==
    /\ op = << >>
    /\ \E n \in (0 - 1)..MaxWin :
          /\ op' = <<[name |-> "window_fixed", window_size |-> n]>>
          /\ out' = WindowPacketsFixedSize(packets, n)
    /\ UNCHANGED <<heap, packets, heap0>>
    /\ UNCHANGED <<lifecycleVars, sweepVars>>

WindowTime ==
    /\ op = << >>
    /\ \E d \in 1..MaxDelta, sort \in BOOLEAN :
          /\ op' = <<[name |-> "window_time", window |-> d, sort |-> sort]>>
          /\ out' = WindowPacketsTimeSeries(heap, packets, d, sort)
    /\ UNCHANGED <<heap, packets, heap0>>
    /\ UNCHANGED <<lifecycleVars, sweepVars>>

Synchronise ==
    /\ Len(op) < MaxSyncs
    /\ \A i \in DOMAIN op : op[i].name = "synchronise" /\ out.kind = "return"
    /\ \E t \in Targets, sort \in BOOLEAN :
          /\ op' = Append(op, [name |-> "synchronise", target |-> t, sort |-> sort])
          /\ out' = SynchroniseReturn(heap, packets, t, sort)
          /\ heap' = SynchroniseHeap(heap, packets, t, sort)
          \* the caller keeps the returned list: self._traces = synchronise(self._traces, ...)
          /\ packets' = IF out'.kind = "return" THEN out'.value ELSE packets
    /\ UNCHANGED heap0
    /\ UNCHANGED <<lifecycleVars, sweepVars>>

GroupByIp ==
    /\ op = << >>
    /\ \E clients \in ClientLists, n \in 1..MaxWin :
          /\ op' = <<[name |-> "group_by_ip", clients |-> clients, window_size |-> n]>>
          /\ out' = GroupPacketsByIpFixedSize(heap, packets, clients, n)
    /\ UNCHANGED <<heap, packets, heap0>>
    /\ UNCHANGED <<lifecycleVars, sweepVars>>

(***************************************************************************)
(* analytics/traffic.py: get_window_stats.  A packet's tcp_info is None or *)
(* a record of seq, payload and flags; a payload is known by its length    *)
(* and its byte entropy.  A number of the result is kept as the pair       *)
(* <<numerator, denominator>>; <<0, 0>> is NaN.                            *)
(***************************************************************************)
\* interval_ranges, in microseconds (line 280).
INTERVAL_RANGES == <<0, 1000, 10000, 100000, 1000000>>

\* tcp_len_ranges = [i*100 for i in range(0, 16)] (line 281).
TCP_LEN_RANGES == [i \in 1..16 |-> (i - 1) * 100]

\* max_tcp_len = max(tcp_len_ranges)
MaxTcpLen == TCP_LEN_RANGES[Len(TCP_LEN_RANGES)]

\* The value of mean_interval when there is no interval (lines 378, 404).
IntervalCap == 1000000

\* {(ranges[i-1], ranges[i]): 0 ...}: the bins in insertion order, and their counts.
BinsOf(ranges) == [i \in 1..(Len(ranges) - 1) |-> <<ranges[i], ranges[i + 1]>>]
NoCounts(ranges) == [i \in 1..(Len(ranges) - 1) |-> 0]

\* A tally without the upper bound and the break: every bin that starts at or
\* below v is counted.
CountInBinFrom(bins, counts, v) ==
    [i \in DOMAIN counts |-> IF bins[i][1] <= v THEN counts[i] + 1 ELSE counts[i]]

\* "for k in bins: if k[0] <= v < k[1]: bins[k] += 1; break", v and the bin
\* bounds in the same unit.
CountInBin(bins, counts, v) ==
    LET hits == { i \in DOMAIN bins : bins[i][1] <= v /\ v < bins[i][2] }
    IN  IF hits = {} THEN counts
        ELSE LET k == CHOOSE i \in hits : \A j \in hits : i <= j
             IN  [counts EXCEPT ![k] = @ + 1]

\* The length bins after one payload of length l (lines 350-357): a payload
\* longer than max_tcp_len adds l // max_tcp_len to the last bin and is then
\* counted by its remainder.
CountLength(counts, l) ==
    LET bins == BinsOf(TCP_LEN_RANGES)
        last == Len(bins)
    IN  IF l > MaxTcpLen
        THEN CountInBin(bins, [counts EXCEPT ![last] = @ + (l \div MaxTcpLen)], l % MaxTcpLen)
        ELSE CountInBin(bins, counts, l)

\* The interval between two packet times, both in ticks, counted in the
\* microsecond bins (lines 336-343).
CountInterval(counts, interval) ==
    CountInBin([i \in DOMAIN BinsOf(INTERVAL_RANGES) |->
                   <<BinsOf(INTERVAL_RANGES)[i][1] * TicksPerMicro,
                     BinsOf(INTERVAL_RANGES)[i][2] * TicksPerMicro>>],
               counts, interval)

Abs(x) == IF x < 0 THEN 0 - x ELSE x

\* packet['tcp_info'] of a packet that is not TCP: None.
NoTcpInfo == [none |-> TRUE]

\* The tallies of one direction before its first packet (lines 286-306).
NoTally ==
    [seqs_seen |-> {}, entropies |-> << >>, intervals |-> << >>,
     intervals_bins |-> NoCounts(INTERVAL_RANGES),
     payload_lengths |-> << >>,
     payload_lengths_bins |-> NoCounts(TCP_LEN_RANGES),
     psh |-> 0, ack |-> 0, prev_time |-> << >>,
     ips |-> {}, client_ips_seen |-> {}, unbound |-> FALSE]

\* One pass of a direction's loop over packet p (lines 316-363 and 426-474);
\* remote and client name the address fields recorded for the direction.
\* packet_tcp is assigned only under entropy_on (line 326): without it the
\* first use of packet_tcp (line 330) finds the name unbound.
TallyPacket(a, p, sel, remote, client) ==
    IF p.tcp_info = NoTcpInfo \/ a.unbound THEN a
    ELSE LET a1 == [a EXCEPT !.ips = @ \cup {p[remote]},
                             !.client_ips_seen = @ \cup {p[client]}]
         IN  IF ~sel.entropy THEN [a1 EXCEPT !.unbound = TRUE]
             ELSE LET tcp == p.tcp_info
                      a2  == [a1 EXCEPT !.entropies = Append(@, tcp.payload.entropy)]
                      a3  == IF tcp.seq \in a2.seqs_seen THEN a2
                             ELSE IF a2.prev_time = << >>
                             THEN [a2 EXCEPT !.seqs_seen = @ \cup {tcp.seq},
                                             !.prev_time = <<p.time>>]
                             ELSE LET interval == Abs(p.time - a2.prev_time[1])
                                  IN  [a2 EXCEPT
                                         !.seqs_seen = @ \cup {tcp.seq},
                                         !.intervals = Append(@, interval),
                                         !.intervals_bins = CountInterval(@, interval),
                                         !.prev_time = <<p.time>>]
                      a4  == IF sel.tcp_len
                             THEN [a3 EXCEPT !.payload_lengths = Append(@, tcp.payload.len)]
                             ELSE a3
                      a5  == IF sel.tcp_len_bins
                             THEN [a4 EXCEPT !.payload_lengths_bins = CountLength(@, tcp.payload.len)]
                             ELSE a4
                  IN  IF sel.psh /\ tcp.ack
                      THEN [a5 EXCEPT !.ack = @ + 1,
                                      !.psh = IF tcp.psh THEN @ + 1 ELSE @]
                      ELSE a5

RECURSIVE TallyFrom(_, _, _, _, _, _, _)
TallyFrom(h, ps, i, a, sel, remote, client) ==
    IF i > Len(ps) THEN a
    ELSE TallyFrom(h, ps, i + 1, TallyPacket(a, h[ps[i]], sel, remote, client),
                   sel, remote, client)

RECURSIVE SumSeq(_)
SumSeq(s) == IF s = << >> THEN 0 ELSE Head(s) + SumSeq(Tail(s))

MaxSeq(s) == CHOOSE v \in { s[i] : i \in DOMAIN s } : \A i \in DOMAIN s : s[i] <= v
MinSeq(s) == CHOOSE v \in { s[i] : i \in DOMAIN s } : \A i \in DOMAIN s : v <= s[i]

\* Counter(lengths).items(): the distinct lengths in order of first occurrence.
RECURSIVE Distinct(_)
Distinct(s) ==
    IF s = << >> THEN << >>
    ELSE LET d == Distinct(SubSeq(s, 1, Len(s) - 1))
             v == s[Len(s)]
         IN  IF \E i \in DOMAIN d : d[i] = v THEN d ELSE Append(d, v)

Occurrences(s, v) == Cardinality({ i \in DOMAIN s : s[i] = v })

\* sorted(counts, key=itemgetter(1)): ascending by count, stable; the place
\* of the item that stands at position i before the sort.
RankByCount(s, d, i) ==
    1 + Cardinality({ j \in DOMAIN d :
                        \/ Occurrences(s, d[j]) < Occurrences(s, d[i])
                        \/ Occurrences(s, d[j]) = Occurrences(s, d[i]) /\ j < i })

\* up_counts_sorted[k - 1][0] if len(up_counts_sorted) > k - 1 else 0
TopLength(s, k) ==
    LET d == Distinct(s)
    IN  IF Len(d) < k THEN <<0, 1>>
        ELSE <<d[CHOOSE i \in DOMAIN d : RankByCount(s, d, i) = k], 1>>

Absent == << >>

\* The features of a direction with too few packets (lines 398-420, 502-530).
DefaultStats(sel) ==
    [mean_entropy  |-> IF sel.entropy THEN <<0, 1>> ELSE Absent,
     max_entropy   |-> IF sel.entropy THEN <<0, 1>> ELSE Absent,
     min_entropy   |-> IF sel.entropy THEN <<0, 1>> ELSE Absent,
     mean_interval |-> IF sel.interval THEN <<IntervalCap, 1>> ELSE Absent,
     bin_interval  |-> IF sel.interval_bins
                       THEN [i \in DOMAIN BinsOf(INTERVAL_RANGES) |-> <<0, 1>>] ELSE Absent,
     top1_tcp_len  |-> IF sel.tcp_len THEN <<0, 1>> ELSE Absent,
     top2_tcp_len  |-> IF sel.tcp_len THEN <<0, 1>> ELSE Absent,
     mean_tcp_len  |-> IF sel.tcp_len THEN <<0, 1>> ELSE Absent,
     bin_len       |-> IF sel.tcp_len_bins
                       THEN [i \in DOMAIN BinsOf(TCP_LEN_RANGES) |-> <<0, 1>>] ELSE Absent,
     push_ratio    |-> IF sel.psh THEN <<0, 1>> ELSE Absent]

\* The features of a direction from its tallies a over n packets (lines
\* 365-396, 476-500).  np.max of no entropies raises ValueError; np.mean of
\* an empty list is NaN.
TalliedStats(a, n, sel) ==
    IF a.unbound THEN Raised("UnboundLocalError")
    ELSE IF sel.entropy /\ a.entropies = << >> THEN Raised("ValueError")
    ELSE Return(
    [mean_entropy  |-> IF sel.entropy THEN <<SumSeq(a.entropies), Len(a.entropies)>> ELSE Absent,
     max_entropy   |-> IF sel.entropy THEN <<MaxSeq(a.entropies), 1>> ELSE Absent,
     min_entropy   |-> IF sel.entropy THEN <<MinSeq(a.entropies), 1>> ELSE Absent,
     mean_interval |-> IF ~sel.interval THEN Absent
                       ELSE IF a.intervals = << >> THEN <<IntervalCap, 1>>
                       ELSE <<SumSeq(a.intervals), Len(a.intervals) * TicksPerMicro>>,
     bin_interval  |-> IF sel.interval_bins
                       THEN [i \in DOMAIN a.intervals_bins |-> <<a.intervals_bins[i], n>>]
                       ELSE Absent,
     top1_tcp_len  |-> IF sel.tcp_len THEN TopLength(a.payload_lengths, 1) ELSE Absent,
     top2_tcp_len  |-> IF sel.tcp_len THEN TopLength(a.payload_lengths, 2) ELSE Absent,
     mean_tcp_len  |-> IF sel.tcp_len
                       THEN <<SumSeq(a.payload_lengths), Len(a.payload_lengths)>> ELSE Absent,
     bin_len       |-> IF sel.tcp_len_bins
                       THEN [i \in DOMAIN a.payload_lengths_bins |-> <<a.payload_lengths_bins[i], n>>]
                       ELSE Absent,
     push_ratio    |-> IF ~sel.psh THEN Absent
                       ELSE IF a.ack > 0 THEN <<a.psh, a.ack>> ELSE <<0, 1>>])

\* filter(lambda x: any(i.overlaps(build_subnet(x[end])) for i in client_subnets), packets)
RECURSIVE OfDirection(_, _, _, _)
OfDirection(h, ps, client_ips, end) ==
    IF ps = << >> THEN << >>
    ELSE LET rest == OfDirection(h, Tail(ps), client_ips, end)
         IN  IF \E i \in DOMAIN client_ips :
                   Overlaps(BuildSubnet(client_ips[i]), BuildSubnet(h[Head(ps)][end]))
             THEN <<Head(ps)>> \o rest ELSE rest

\* A direction is tallied when it holds more than `least` packets.
DirectionTally(h, dir, least, sel, remote, client) ==
    IF Len(dir) > least THEN TallyFrom(h, dir, 1, NoTally, sel, remote, client) ELSE NoTally

DirectionStats(h, dir, least, sel, remote, client) ==
    IF Len(dir) > least
    THEN TalliedStats(DirectionTally(h, dir, least, sel, remote, client), Len(dir), sel)
    ELSE Return(DefaultStats(sel))

\* "if len(packets_up) > 1" (line 314) and "if len(packets_down) > 0" (line 423).
LeastUp == 1
LeastDown == 0

\* get_window_stats(windowed_packets, client_ips, feature_selection)
GetWindowStats(h, ps, client_ips, sel) ==
    IF client_ips = << >> THEN Return([stats |-> << >>, ips |-> {}, client_ips_seen |-> {}])
    ELSE LET packets_up   == OfDirection(h, ps, client_ips, "src")
             packets_down == OfDirection(h, ps, client_ips, "dst")
             tally_up     == DirectionTally(h, packets_up, LeastUp, sel, "dst", "src")
             tally_down   == DirectionTally(h, packets_down, LeastDown, sel, "src", "dst")
             up           == DirectionStats(h, packets_up, LeastUp, sel, "dst", "src")
             down         == DirectionStats(h, packets_down, LeastDown, sel, "src", "dst")
         IN  IF up.kind = "raise" THEN up
             ELSE IF down.kind = "raise" THEN down
             ELSE Return(
                [stats |-> [up_down_ratio |->
                               IF Len(packets_up) > 0 /\ Len(packets_down) > 0
                               THEN <<Len(packets_up), Len(packets_down)>> ELSE <<0, 1>>,
                            up |-> up.value, down |-> down.value],
                 ips |-> tally_up.ips \cup tally_down.ips,
                 client_ips_seen |-> tally_up.client_ips_seen \cup tally_down.client_ips_seen])

\* The payloads, flags and packets a window is drawn from.
Payloads == { [len |-> 150, entropy |-> 5], [len |-> 1500, entropy |-> 7],
              [len |-> 3100, entropy |-> 7] }

TcpInfos ==
    { t \in [seq : 1..2, payload : Payloads, ack : BOOLEAN, psh : BOOLEAN] : t.psh => t.ack }

Endpoints == { <<0, 2>>, <<2, 0>> }

\* Time between consecutive packets of a window, in microseconds.
Gaps == {500, 2000000}

\* The feature selections tried: everything, or everything but the entropy features.
Selections ==
    { [entropy |-> e, interval |-> TRUE, interval_bins |-> TRUE, tcp_len |-> TRUE,
       tcp_len_bins |-> TRUE, psh |-> TRUE] : e \in BOOLEAN }

ClientIps == { <<0>>, << >> }

\* A chronologically ordered window of up to MaxWindow packets.
WindowInit ==
    /\ \E n \in 0..MaxWindow, gap \in Gaps :
          \E ends \in [1..n -> Endpoints], tcp \in [1..n -> TcpInfos \cup {NoTcpInfo}] :
             heap = [i \in 1..n |-> [time |-> i * gap * TicksPerMicro,
                                      src |-> ends[i][1], dst |-> ends[i][2],
                                      tcp_info |-> tcp[i]]]
    /\ packets = [i \in DOMAIN heap |-> i]
    /\ heap0 = heap
    /\ op = << >>
    /\ out = Return(None)

WindowStats ==
    /\ op = << >>
    /\ \E client_ips \in ClientIps, sel \in Selections :
          /\ op' = <<[name |-> "window_stats", client_ips |-> client_ips,
                      feature_selection |-> sel]>>
          /\ out' = GetWindowStats(heap, packets, client_ips, sel)
    /\ UNCHANGED <<heap, packets, heap0>>
    /\ UNCHANGED <<lifecycleVars, sweepVars>>

(***************************************************************************)
(* analytics/traffic.py: ordered_tcp_payload_length_frequency, lines 14-59 *)
(***************************************************************************)

\* constants.MTU_FRAME_AVOIDANCE_THRESHOLD_CLUSTERING
MTU_FRAME_AVOIDANCE_THRESHOLD_CLUSTERING == 1400

\* packet['tls_info'] of a packet without a TLS record: None.
NoTlsInfo == [none |-> TRUE]

\* Lines 35-43: the payload lengths collected, in packet order.
RECURSIVE CollectLengths(_, _)
CollectLengths(ps, tls_only) ==
    IF ps = << >> THEN << >>
    ELSE LET packet == Head(ps)
             rest   == CollectLengths(Tail(ps), tls_only)
         IN  IF packet.tcp_info = NoTcpInfo THEN rest
             ELSE IF tls_only /\ packet.tls_info = NoTlsInfo THEN rest
             ELSE IF packet.tcp_info.payload.len > MTU_FRAME_AVOIDANCE_THRESHOLD_CLUSTERING
             THEN rest
             ELSE <<packet.tcp_info.payload.len>> \o rest

\* The points that bear label l.
LabelPopulation(labels, l) == Cardinality({ i \in DOMAIN labels : labels[i] = l })

\* Whether steps of at most twice the bandwidth lead from length x up to
\* length y through the lengths.
Linked(lengths, x, y, bandwidth) ==
    \A i \in DOMAIN lengths :
        (x <= lengths[i] /\ lengths[i] < y) =>
            \E j \in DOMAIN lengths :
                lengths[i] < lengths[j] /\ lengths[j] <= lengths[i] + 2 * bandwidth

\* meanshift.labels_ after the fit (lines 46-50): every point bears the
\* number of its nearest cluster centre, so equal points bear equal labels,
\* and the centres are numbered from 0 by falling number of points.  Points
\* within the bandwidth of each other share a centre, points that no steps
\* of twice the bandwidth link do not; the rest is the library's choice.
Labellings(lengths, bandwidth) ==
    { labels \in [DOMAIN lengths -> 0..(Len(lengths) - 1)] :
        /\ \A i, j \in DOMAIN lengths : lengths[i] = lengths[j] => labels[i] = labels[j]
        /\ \A i \in DOMAIN lengths :
              \A l \in 0..labels[i] : \E j \in DOMAIN lengths : labels[j] = l
        /\ \A i, j \in DOMAIN lengths :
              /\ Abs(lengths[i] - lengths[j]) <= bandwidth => labels[i] = labels[j]
              /\ (lengths[i] <= lengths[j] /\ labels[i] = labels[j])
                    => Linked(lengths, lengths[i], lengths[j], bandwidth)
              /\ labels[i] < labels[j]
                    => LabelPopulation(labels, labels[i]) >= LabelPopulation(labels, labels[j]) }

\* len(np.unique(labels))
UniqueLabels(labels) == Cardinality({ labels[i] : i \in DOMAIN labels })

\* members = (labels == i); set(lengths[members, 0])
ClusterMembersUpTo(lengths, labels, i) ==
    { lengths[j] : j \in { k \in DOMAIN lengths : labels[k] <= i } }

ClusterMembers(lengths, labels, i) ==
    { lengths[j] : j \in { k \in DOMAIN lengths : labels[k] = i } }

\* Lines 53-59: the clusters in label order.
Clusters(lengths, labels) ==
    [c \in 1..UniqueLabels(labels) |-> ClusterMembers(lengths, labels, c - 1)]

\* ordered_tcp_payload_length_frequency(packets, tls_only, bandwidth) when
\* the fit labels the points by labels.  MeanShift.fit rejects an empty
\* array with ValueError.
OrderedTcpPayloadLengthFrequency(ps, tls_only, labels) ==
    IF CollectLengths(ps, tls_only) = << >> THEN Raised("ValueError")
    ELSE Return(Clusters(CollectLengths(ps, tls_only), labels))

\* The payload lengths and the packets a clustered list is drawn from.
ClusterPayloadLengths == {54, 55, 1400, 1401}

ClusterPackets ==
    [tcp_info : {NoTcpInfo} \cup [payload : [len : ClusterPayloadLengths]],
     tls_info : {NoTlsInfo, [type |-> 22]},
     dst      : {1}]

MEANSHIFT_BWS == <<1, 2, 3, 5, 10>>

\* A list of up to MaxClusterLen packets.
ClusterInit ==
    /\ \E n \in 0..MaxClusterLen : heap \in [1..n -> ClusterPackets]
    /\ packets = [i \in DOMAIN heap |-> i]
    /\ heap0 = heap
    /\ op = << >>
    /\ out = Return(None)

ClusterLengths ==
    /\ op = << >>
    /\ \E tls_only \in BOOLEAN, bandwidth \in {1, 3, 10} :
          LET lengths == CollectLengths(heap, tls_only)
          IN  \E labels \in IF lengths = << >> THEN {<< >>} ELSE Labellings(lengths, bandwidth) :
                 /\ op' = <<[name |-> "cluster", tls_only |-> tls_only,
                             bandwidth |-> bandwidth, labels |-> labels]>>
                 /\ out' = OrderedTcpPayloadLengthFrequency(heap, tls_only, labels)
    /\ UNCHANGED <<heap, packets, heap0>>
    /\ UNCHANGED <<lifecycleVars, sweepVars>>

(***************************************************************************)
(* strategy/entropy_dist.py: EntropyStrategy.  Rates are pairs             *)
(* <<numerator, denominator>>; p-values and p-value thresholds are in      *)
(* hundredths; a dict is the sequence of its <<key, value>> items in       *)
(* insertion order.                                                        *)
(***************************************************************************)
CRITERIA == <<3, 2, 1>>
P_THRESHOLDS == <<10, 20>>
BLOCK_SIZES == <<16, 32, 64, 128>>

\* 100 * FALSE_POSITIVE_SCORE_WEIGHT
FALSE_POSITIVE_SCORE_WEIGHT == 50

\* 100 * TLS_HTTP_INCLUSION_THRESHOLD
TLS_HTTP_INCLUSION_THRESHOLD == 10

\* The configurations in the order run_strategy sweeps them (lines 276-278):
\* "for p in P_THRESHOLDS: for b in BLOCK_SIZES: for c in CRITERIA".
SweptConfigs ==
    [k \in 1..(Len(P_THRESHOLDS) * Len(BLOCK_SIZES) * Len(CRITERIA)) |->
        LET c == ((k - 1) % Len(CRITERIA)) + 1
            b == (((k - 1) \div Len(CRITERIA)) % Len(BLOCK_SIZES)) + 1
            p == ((k - 1) \div (Len(CRITERIA) * Len(BLOCK_SIZES))) + 1
        IN  <<BLOCK_SIZES[b], P_THRESHOLDS[p], CRITERIA[c]>>]

HasKey(d, k) == \E i \in DOMAIN d : d[i][1] = k
Lookup(d, k) == d[CHOOSE i \in DOMAIN d : d[i][1] = k][2]

RateLess(a, b) == a[1] * b[2] < b[1] * a[2]
RateEq(a, b) == a[1] * b[2] = b[1] * a[2]

\* abs(a - b) of two rates.
RateDiff(a, b) == <<Abs(a[1] * b[2] - b[1] * a[2]), a[2] * b[2]>>

Max2(a, b) == IF a >= b THEN a ELSE b

\* The p-values of the three tests on the first 2048 bytes of a payload
\* (lines 128-130): KS uniform, KS distribution, AD min_threshold.
PValuesOf(payload, block_size) == payload.p

\* len(list(filter(lambda x: x > p_threshold, ...))): a p-value equal to the
\* threshold not counted.
AgreementAbove(payload, block_size, p_threshold) ==
    Cardinality({ i \in 1..3 : PValuesOf(payload, block_size)[i] > p_threshold })

\* agreement = len(list(filter(lambda x: x >= p_threshold, [p1, p2, p3['min_threshold']])))
Agreement(payload, block_size, p_threshold) ==
    Cardinality({ i \in 1..3 : PValuesOf(payload, block_size)[i] >= p_threshold })

\* config_specific_penalisation (lines 76-90), in tenths.
ConfigSpecificPenalisation(s, config_set) ==
    IF ~HasKey(s.TPR, config_set) THEN 0
    ELSE Max2(0, config_set[3] - 1)

\* "if len(payload) >= max(self._protocol_min_length, block_size)"
IsExamined(t, min_length, block_size) ==
    t.tcp_info.payload.len >= Max2(min_length, block_size)

\* The traces counted in `identified` by a run with config = (b, p, c).
Identified(traces, min_length, config) ==
    { i \in DOMAIN traces :
        /\ IsExamined(traces[i], min_length, config[1])
        /\ Agreement(traces[i].tcp_info.payload, config[1], config[2]) >= config[3] }

\* positive_run (lines 101-145): the TPR dict afterwards.  With no trace
\* examined it returns 0 and records nothing (lines 136-138).
EntropyPositiveRun(s, config) ==
    LET examined == { i \in DOMAIN s.pt_traces :
                        IsExamined(s.pt_traces[i], s.protocol_min_length, config[1]) }
        identified == Identified(s.pt_traces, s.protocol_min_length, config)
    IN  IF examined = {} THEN s
        ELSE [s EXCEPT !.TPR = Append(@, <<config, <<Cardinality(identified),
                                                    Cardinality(examined)>>>>)]

\* negative_run (lines 148-195).
EntropyNegativeRun(s, config) ==
    LET identified == Identified(s.neg_traces, s.protocol_min_length, config)
        blocked_ips == { s.neg_traces[i].dst : i \in identified }
    IN  [s EXCEPT !.FPR = Append(@, <<config, <<Cardinality(identified),
                                                s.neg_collection_total>>>>),
                  !.blocked_ips = Append(@, <<config, blocked_ips>>),
                  !.negative_blocked_ips = blocked_ips]

\* The loop of lines 276-288 from its k-th configuration on.  Each pass is
\* worked out before the next begins: the k-th pass leaves k entries in FPR.
RECURSIVE EntropySweep(_, _)
EntropySweep(s, k) ==
    IF k > Len(SweptConfigs) THEN s
    ELSE LET swept == EntropyNegativeRun(EntropyPositiveRun(s, SweptConfigs[k]),
                                         SweptConfigs[k])
         IN  IF Len(swept.FPR) >= k THEN EntropySweep(swept, k + 1) ELSE swept

\* [i for i in traces if i[field] is not None] when keep, "is None" otherwise.
RECURSIVE FilterInfo(_, _, _, _)
FilterInfo(traces, field, none, keep) ==
    IF traces = << >> THEN << >>
    ELSE LET rest == FilterInfo(Tail(traces), field, none, keep)
         IN  IF (Head(traces)[field] # none) = keep THEN <<Head(traces)>> \o rest ELSE rest

NoHttpInfo == [none |-> TRUE]

\* Lines 246-252: TLS packets counted, HTTP counted only among the others.
PtTlsCount(traces) == Cardinality({ i \in DOMAIN traces : traces[i].tls_info # NoTlsInfo })
PtHttpCount(traces) ==
    Cardinality({ i \in DOMAIN traces :
                    traces[i].tls_info = NoTlsInfo /\ traces[i].http_info # NoHttpInfo })

\* sorted(d.items(), key=itemgetter(1))[0][0], or with reverse=True when
\* descending: the first inserted key among those of the best value.
FirstBest(d, descending) ==
    d[CHOOSE i \in DOMAIN d :
        /\ \A j \in DOMAIN d : IF descending THEN ~RateLess(d[i][2], d[j][2])
                                ELSE ~RateLess(d[j][2], d[i][2])
        /\ \A j \in 1..(i - 1) : IF descending THEN RateLess(d[j][2], d[i][2])
                                  ELSE RateLess(d[i][2], d[j][2])][1]

\* 1 + diff * 100 of a rate difference, the argument of log1p's logarithm.
Log1pArg(diff) == <<diff[2] + 100 * diff[1], diff[2]>>

\* exp(log1p(100) - true_positives_scores[i]) and the same of the false
\* positive score (lines 303-304): the scores fall as these rise.  best is
\* the rate the configuration's rate is measured against.
TruePositiveCost(tps, best, i) == Log1pArg(RateDiff(best, Lookup(tps, i)))
FalsePositiveCost(fps, best, i) == Log1pArg(RateDiff(best, Lookup(fps, i)))

\* average_scores[i] (line 305) with equal weights is
\* log1p(100) - log(AverageCost) / 2.
AverageCost(tp_cost, fp_cost) == <<tp_cost[1] * fp_cost[1], tp_cost[2] * fp_cost[2]>>

\* The rate the false positive scores are measured against (line 304):
\* tps[best_false_positive].
FalsePositiveAnchor(tps, fps) == Lookup(tps, FirstBest(fps, FALSE))

\* The costs of the configurations of tps, in the order of configs (line 302).
AverageCosts(tps, fps) ==
    LET best_tp == Lookup(tps, FirstBest(tps, TRUE))
        best_fp == FalsePositiveAnchor(tps, fps)
    IN  [k \in DOMAIN tps |->
            AverageCost(TruePositiveCost(tps, best_tp, tps[k][1]),
                        FalsePositiveCost(fps, best_fp, tps[k][1]))]

\* average_scores.index(max(average_scores))
IndexOfMax(costs) ==
    CHOOSE i \in DOMAIN costs :
        /\ \A j \in DOMAIN costs : ~RateLess(costs[j], costs[i])
        /\ \A j \in 1..(i - 1) : RateLess(costs[i], costs[j])

\* configs[average_scores.index(max(average_scores))]
BestScored(tps, fps) == tps[IndexOfMax(AverageCosts(tps, fps))][1]

\* Lines 290-318: the selection after the sweep.
EntropySelect(s) ==
    IF s.TPR = << >> THEN [s EXCEPT !.result = Raised("IndexError")]
    ELSE IF ~HasKey(s.TPR, FirstBest(s.FPR, FALSE)) THEN [s EXCEPT !.result = Raised("KeyError")]
    ELSE LET best_config == BestScored(s.TPR, s.FPR)
             blocked     == Lookup(s.blocked_ips, best_config)
         IN  [s EXCEPT !.best_config = <<best_config>>,
                       !.true_positive_rate = Lookup(s.TPR, best_config),
                       !.false_positive_rate = Lookup(s.FPR, best_config),
                       !.negative_blocked_ips = blocked,
                       !.false_positive_blocked_rate =
                            <<Cardinality(blocked), s.negative_unique_ips>>,
                       !.result = Return(<<Lookup(s.TPR, best_config),
                                           Lookup(s.FPR, best_config)>>)]

\* run_strategy (lines 229-318).
EntropyRunStrategy(s, protocol_min_length) ==
    LET s1 == [s EXCEPT !.protocol_min_length = protocol_min_length]
        keep_tls == 100 * PtTlsCount(s.pt_traces)
                        >= TLS_HTTP_INCLUSION_THRESHOLD * Len(s.pt_traces)
        s2 == [s1 EXCEPT !.pt_traces = FilterInfo(@, "tls_info", NoTlsInfo, keep_tls),
                         !.neg_traces = FilterInfo(@, "tls_info", NoTlsInfo, keep_tls),
                         !.disregard_tls = ~keep_tls]
        keep_http == 100 * PtHttpCount(s.pt_traces)
                         >= TLS_HTTP_INCLUSION_THRESHOLD * Len(s2.pt_traces)
        s3 == [s2 EXCEPT !.pt_traces = FilterInfo(@, "http_info", NoHttpInfo, keep_http),
                         !.neg_traces = FilterInfo(@, "http_info", NoHttpInfo, keep_http),
                         !.disregard_http = ~keep_http]
    IN  IF s2.pt_traces = << >> THEN [s2 EXCEPT !.result = Raised("ZeroDivisionError")]
        ELSE EntropySelect(EntropySweep(s3, 1))

\* The payloads and packets the traces are drawn from: every loaded packet
\* is TCP with a payload (set_strategic_filter, lines 61-62).
EntropyPayloads ==
    [len : {16, 128}, p : {<<25, 25, 25>>, <<10, 10, 5>>, <<25, 5, 5>>}]

EntropyPackets ==
    { t \in [tcp_info : [payload : EntropyPayloads],
             tls_info : {NoTlsInfo, [type |-> 22]},
             http_info : {NoHttpInfo, [method |-> "GET"]},
             dst : {1, 2}] :
        /\ t.tls_info = NoTlsInfo \/ t.http_info = NoHttpInfo
        /\ (t.tls_info # NoTlsInfo \/ t.http_info # NoHttpInfo)
              => t.tcp_info.payload = [len |-> 128, p |-> <<25, 25, 25>>]
        /\ t.dst = 2 => (t.tcp_info.payload = [len |-> 128, p |-> <<25, 25, 25>>]
                         /\ t.tls_info = NoTlsInfo /\ t.http_info = NoHttpInfo) }

ProtocolMinLengths == {0, 64}

\* The strategy after setup: the traces loaded, nothing swept.  loaded_pt
\* and loaded_neg keep the lists as loaded, beside the instance's fields.
EntropyLoaded(kinds, max_positive, max_negative) ==
    \E np \in 1..max_positive, nn \in 1..max_negative :
       \E pt \in [1..np -> kinds], neg \in [1..nn -> kinds],
          filtered \in 0..1 :
          eds = [pc |-> "loaded",
                 pt_traces |-> pt,
                 neg_traces |-> neg,
                 loaded_pt |-> pt,
                 loaded_neg |-> neg,
                 neg_collection_total |-> nn + filtered,
                 negative_unique_ips |-> Cardinality({ neg[i].dst : i \in 1..nn }),
                 protocol_min_length |-> 0,
                 disregard_tls |-> FALSE,
                 disregard_http |-> FALSE,
                 TPR |-> << >>, FPR |-> << >>, blocked_ips |-> << >>,
                 best_config |-> << >>,
                 true_positive_rate |-> None,
                 false_positive_rate |-> None,
                 negative_blocked_ips |-> {},
                 false_positive_blocked_rate |-> None,
                 result |-> Return(None)]

EntropyStart == EntropyLoaded(EntropyPackets, MaxEntropyPositive, MaxEntropyNegative)

\* Traces that differ in their TLS and HTTP info only: plain, TLS and HTTP
\* packets of one payload and one peer.
PolicyPackets ==
    { t \in EntropyPackets :
        t.dst = 1 /\ t.tcp_info.payload = [len |-> 128, p |-> <<25, 25, 25>>] }

PolicyStart == EntropyLoaded(PolicyPackets, MaxPolicyPositive, MaxPolicyNegative)

EntropyRun ==
    /\ eds.pc = "loaded"
    /\ \E protocol_min_length \in ProtocolMinLengths :
          eds' = [EntropyRunStrategy(eds, protocol_min_length) EXCEPT !.pc = "done"]
    /\ UNCHANGED <<lifecycleVars, trafficVars, sdg, lcs>>

(***************************************************************************)
(* strategy/length_clustering.py: LengthClusteringStrategy.  A dict is a   *)
(* function of its keys; TPR and FPR are keyed by <<bandwidth, k>>.        *)
(***************************************************************************)
\* 100 * MINIMUM_TPR
MINIMUM_TPR == 40

TLS_MODES == <<"all", "only", "none">>

\* The configurations (bandwidth, cluster count) the sweep fills in.
LengthConfigs == { <<MEANSHIFT_BWS[i], k>> : i \in DOMAIN MEANSHIFT_BWS, k \in {1, 2} }

\* The last bandwidth whose positive and negative runs are in TPR and FPR.
NoRates == [c \in {} |-> <<0, 1>>]
NoSets == [c \in {} |-> {}]

PayloadLen(trace) == trace.tcp_info.payload.len

\* top_two_clusters_identified (lines 101-105): counted only under
\* "if len(...) in top_cluster".
TopTwoClustersIdentified(traces, top_cluster, top_two_clusters) ==
    Cardinality({ i \in DOMAIN traces :
                    /\ PayloadLen(traces[i]) \in top_cluster
                    /\ PayloadLen(traces[i]) \in top_two_clusters })

\* positive_run(bandwidth=bw) (lines 85-116) when the fit labels the points
\* by labels: the strategy afterwards, or what it raises.  most_frequent
\* keeps what the clustering returned for each bandwidth.
LengthPositiveRun(s, bw, labels) ==
    LET most_frequent == OrderedTcpPayloadLengthFrequency(s.pt_traces, s.tls_mode = "only", labels)
    IN  IF most_frequent.kind = "raise" THEN most_frequent
        ELSE IF Len(most_frequent.value) < 2 THEN Raised("IndexError")
        ELSE LET top_cluster == most_frequent.value[1]
                 top_two_clusters == top_cluster \cup most_frequent.value[2]
                 top_cluster_identified ==
                     Cardinality({ i \in DOMAIN s.pt_traces :
                                     PayloadLen(s.pt_traces[i]) \in top_cluster })
                 top_two_clusters_identified ==
                     TopTwoClustersIdentified(s.pt_traces, top_cluster, top_two_clusters)
             IN  Return([s EXCEPT
                    !.most_frequent = (bw :> most_frequent.value) @@ @,
                    !.top_cluster = (bw :> top_cluster) @@ @,
                    !.top_two_clusters = (bw :> top_two_clusters) @@ @,
                    !.TPR = (<<bw, 1>> :> <<top_cluster_identified, Len(s.pt_traces)>>)
                            @@ (<<bw, 2>> :> <<top_two_clusters_identified, Len(s.pt_traces)>>)
                            @@ @])

\* The destinations of the traces whose payload length is in cluster.
BlockedBy(traces, cluster) ==
    { traces[i].dst : i \in { k \in DOMAIN traces : PayloadLen(traces[k]) \in cluster } }
FalselyIdentified(traces, cluster) ==
    Cardinality({ i \in DOMAIN traces : PayloadLen(traces[i]) \in cluster })

\* negative_run(bandwidth=bw) (lines 119-155).
LengthNegativeRun(s, bw) ==
    LET blocked_one == BlockedBy(s.neg_traces, s.top_cluster[bw])
        blocked_two == BlockedBy(s.neg_traces, s.top_two_clusters[bw])
        fewest == IF Cardinality(blocked_two) < Cardinality(blocked_one)
                  THEN blocked_two ELSE blocked_one
    IN  [s EXCEPT
           !.blocked = (<<bw, 1>> :> blocked_one) @@ (<<bw, 2>> :> blocked_two) @@ @,
           !.FPR = (<<bw, 1>> :> <<FalselyIdentified(s.neg_traces, s.top_cluster[bw]),
                                   s.neg_collection_total>>)
                   @@ (<<bw, 2>> :> <<FalselyIdentified(s.neg_traces, s.top_two_clusters[bw]),
                                      s.neg_collection_total>>)
                   @@ @,
           !.negative_blocked_ips = fewest,
           !.false_positive_blocked_rate = <<Cardinality(fewest), s.negative_unique_ips>>]

\* run_on_positive(config, **kwargs) and run_on_negative(config, **kwargs) of
\* the base class: positive_run(**kwargs) and negative_run(**kwargs).
LengthRunOnPositive(s, bw, labels) == LengthPositiveRun(s, bw, labels)
LengthRunOnNegative(s, bw) == LengthNegativeRun(s, bw)

\* The loop of lines 226-240 from the i-th bandwidth on, the fit of the i-th
\* bandwidth labelling the points by labels[i].
RECURSIVE LengthSweep(_, _, _)
LengthSweep(s, i, labels) ==
    IF i > Len(MEANSHIFT_BWS) THEN Return(s)
    ELSE LET positive == LengthRunOnPositive(s, MEANSHIFT_BWS[i], labels[i])
         IN  IF positive.kind = "raise" THEN positive
             ELSE LengthSweep(LengthRunOnNegative(positive.value, MEANSHIFT_BWS[i]), i + 1, labels)

\* An order of the configurations by FPR that puts the wider bandwidth first.
BeforeInFalsePositivesWideFirst(fps, a, b) ==
    \/ RateLess(fps[a], fps[b])
    \/ RateEq(fps[a], fps[b]) /\ a[1] > b[1]
    \/ RateEq(fps[a], fps[b]) /\ a[1] = b[1] /\ a[2] < b[2]

\* The place of config among best_false_positives (line 250):
\* sorted(fps.items(), key=lambda x: (x[1], x[0][0], x[0][1])).
BeforeInFalsePositives(fps, a, b) ==
    \/ RateLess(fps[a], fps[b])
    \/ RateEq(fps[a], fps[b]) /\ a[1] < b[1]
    \/ RateEq(fps[a], fps[b]) /\ a[1] = b[1] /\ a[2] < b[2]

\* tps[config] >= self.MINIMUM_TPR
MeetsMinimumTpr(rate) == 100 * rate[1] >= MINIMUM_TPR * rate[2]

\* Lines 242-281: the selection after the sweep.
LengthSelect(s) ==
    LET eligible == { c \in DOMAIN s.FPR : MeetsMinimumTpr(s.TPR[c]) }
    IN  IF eligible = {} THEN [s EXCEPT !.result = Return(<<None, None>>)]
        ELSE LET best_config ==
                     CHOOSE c \in eligible :
                        \A d \in eligible : d # c => BeforeInFalsePositives(s.FPR, c, d)
             IN  [s EXCEPT
                    !.best_config = <<best_config>>,
                    !.true_positive_rate = s.TPR[best_config],
                    !.false_positive_rate = s.FPR[best_config],
                    !.top_cluster = IF best_config[2] = 1 THEN s.top_cluster[best_config[1]]
                                    ELSE s.top_two_clusters[best_config[1]],
                    !.negative_blocked_ips = s.blocked[best_config],
                    !.false_positive_blocked_rate =
                         <<Cardinality(s.blocked[best_config]), s.negative_unique_ips>>,
                    !.result = Return(<<s.TPR[best_config], s.FPR[best_config]>>)]

TlsTraces(traces) == Cardinality({ i \in DOMAIN traces : traces[i].tls_info # NoTlsInfo })

\* Lines 199-209: self._tls_mode for the tls_mode examined.
EffectiveTlsMode(traces, tls_mode) ==
    IF tls_mode # "guess" THEN tls_mode
    ELSE IF 100 * TlsTraces(traces) > 95 * Len(traces) THEN "only"
    ELSE IF 100 * TlsTraces(traces) < 5 * Len(traces) THEN "none"
    ELSE "all"

\* Lines 211-221: the traces are filtered by the local tls_mode, which is
\* still 'guess' when the mode was guessed.
FilterByTlsMode(s, tls_mode) ==
    IF tls_mode = "only"
    THEN [s EXCEPT !.pt_traces = FilterInfo(@, "tls_info", NoTlsInfo, TRUE),
                   !.neg_traces = FilterInfo(@, "tls_info", NoTlsInfo, TRUE)]
    ELSE IF tls_mode = "none"
    THEN [s EXCEPT !.pt_traces = FilterInfo(@, "tls_info", NoTlsInfo, FALSE),
                   !.neg_traces = FilterInfo(@, "tls_info", NoTlsInfo, FALSE)]
    ELSE s

\* Lines 194-197: an absent or invalid tls_mode is 'guess'.
ExaminedTlsMode(arg) ==
    IF \E i \in DOMAIN TLS_MODES : TLS_MODES[i] = arg THEN arg ELSE "guess"

\* The lengths positive_run hands to the fit under tls_mode arg.
LengthsToFit(s, arg) ==
    LET tls_mode == ExaminedTlsMode(arg)
        s1 == [s EXCEPT !.tls_mode = EffectiveTlsMode(s.pt_traces, tls_mode)]
    IN  CollectLengths(FilterByTlsMode(s1, tls_mode).pt_traces, s1.tls_mode = "only")

\* run_strategy(tls_mode=arg) (lines 183-281), the fits labelling the points
\* by labels.
LengthRunStrategy(s, arg, labels) ==
    LET tls_mode == ExaminedTlsMode(arg)
        s1 == [s EXCEPT !.tls_mode = EffectiveTlsMode(s.pt_traces, tls_mode)]
        s2 == FilterByTlsMode(s1, tls_mode)
        swept == LengthSweep(s2, 1, labels)
    IN  IF swept.kind = "raise" THEN [s2 EXCEPT !.result = swept]
        ELSE LengthSelect(swept.value)

\* The packets the traces are drawn from: every loaded packet is TCP with a
\* payload (set_strategic_filter, lines 49-50).
LengthPackets ==
    { t \in ClusterPackets :
        /\ t.tcp_info # NoTcpInfo
        /\ t.tls_info = NoTlsInfo => PayloadLen(t) = 54 }

\* Packet lists are drawn in one order of their packets.
PacketRank(t) == 2 * PayloadLen(t) + (IF t.tls_info = NoTlsInfo THEN 0 ELSE 1)
Ranked(traces) ==
    \A i \in 1..(Len(traces) - 1) : PacketRank(traces[i]) <= PacketRank(traces[i + 1])

TlsModeArguments == {"guess", "all", "only", "none"}

\* The strategy after setup (lines 32-39): the traces loaded, nothing swept.
LengthStart ==
    \E np \in 1..MaxLengthPositive, nn \in 1..MaxLengthNegative :
       \E pt \in [1..np -> LengthPackets], neg \in [1..nn -> LengthPackets] :
          /\ Ranked(pt) /\ Ranked(neg)
          /\ lcs = [pc |-> "loaded",
                    pt_traces |-> pt,
                    neg_traces |-> neg,
                    pt_loaded |-> pt,
                    neg_loaded |-> neg,
                    neg_collection_total |-> nn,
                    negative_unique_ips |-> 1,
                    tls_mode |-> TLS_MODES[1],
                    tls_mode_arg |-> None,
                    TPR |-> NoRates, FPR |-> NoRates,
                    most_frequent |-> NoSets,
                    top_cluster |-> NoSets, top_two_clusters |-> NoSets,
                    blocked |-> NoSets,
                    best_config |-> << >>,
                    true_positive_rate |-> <<None>>,
                    false_positive_rate |-> <<None>>,
                    negative_blocked_ips |-> {},
                    false_positive_blocked_rate |-> <<0, 1>>,
                    result |-> Return(None)]

LengthRun ==
    /\ lcs.pc = "loaded"
    /\ \E arg \in TlsModeArguments :
          LET lengths == LengthsToFit(lcs, arg)
              fits(bw) == IF lengths = << >> THEN {<< >>} ELSE Labellings(lengths, bw)
          IN  \E l1 \in fits(MEANSHIFT_BWS[1]), l2 \in fits(MEANSHIFT_BWS[2]),
                 l3 \in fits(MEANSHIFT_BWS[3]), l4 \in fits(MEANSHIFT_BWS[4]),
                 l5 \in fits(MEANSHIFT_BWS[5]) :
                 lcs' = [LengthRunStrategy(lcs, arg, <<l1, l2, l3, l4, l5>>)
                            EXCEPT !.pc = "done", !.tls_mode_arg = arg]
    /\ UNCHANGED <<lifecycleVars, trafficVars, sdg, eds>>

(***************************************************************************)
(* The SDG strategy's percentile sweep: sdg.py, from line 337 on.  The     *)
(* feature rows have been extracted; a row is known by its peer IP and its *)
(* label.  A rate is kept as the pair <<numerator, denominator>>.          *)
(***************************************************************************)
\* Peer addresses of the feature rows.
IPs == {1, 2}

DYNAMIC_THRESHOLD_PERCENTILES == <<0, 50, 75, 80, 85, 90>>

\* DYNAMIC_ADJUSTMENT_STOPPING_CRITERIA = (0.75, 0.001), as comparisons of a rate.
BelowTprCriterion(rate) == 4 * rate[1] < 3 * rate[2]
BelowFprCriterion(rate) == 1000 * rate[1] < rate[2]

\* The decision_threshold argument of run: None, or an integer.
ManualThresholds == {[isint |-> FALSE, v |-> 0], [isint |-> TRUE, v |-> 50]}

\* for ip in all_ips: self._target_ip_occurrences[ip] += 1
RECURSIVE CountIps(_, _)
CountIps(occ, ips) ==
    IF ips = << >> THEN occ
    ELSE CountIps([occ EXCEPT ![Head(ips)] = @ + 1], Tail(ips))

NoOccurrences == [ip \in IPs |-> 0]

\* list(occurrences.values()) in ascending order; an IP never counted has no entry.
RECURSIVE SortedValues(_, _)
SortedValues(occ, ips) ==
    IF ips = {} THEN << >>
    ELSE LET m == CHOOSE ip \in ips : \A other \in ips : occ[ip] <= occ[other]
         IN  <<occ[m]>> \o SortedValues(occ, ips \ {m})

Values(occ) == SortedValues(occ, { ip \in IPs : occ[ip] > 0 })

\* floor(np.percentile(values, q)), by linear interpolation between ranks.
FloorPercentile(a, q) ==
    LET pos  == q * (Len(a) - 1)
        lo   == pos \div 100
        frac == pos % 100
    IN  IF frac = 0 THEN a[lo + 1]
        ELSE a[lo + 1] + ((a[lo + 2] - a[lo + 1]) * frac) \div 100

\* Line 356: floor(np.percentile(list(self._target_ip_occurrences.values()), pct)).
DecisionThreshold(occ, pct) == FloorPercentile(Values(occ), pct)

\* The loop without the tally of a truly positive row predicted negative.
RECURSIVE ValidateSkipping(_, _, _, _, _, _)
ValidateSkipping(ips, labels, prediction, threshold, i, acc) ==
    IF i > Len(prediction) THEN acc
    ELSE LET ip    == ips[i]
             occ   == IF prediction[i] = 1
                      THEN [acc.ip_occurrences EXCEPT ![ip] = @ + 1]
                      ELSE acc.ip_occurrences
             block == occ[ip] > threshold
             step  ==
                IF prediction[i] = 1
                THEN IF labels[i] = 1
                     THEN IF block THEN [acc EXCEPT !.true_positives = @ + 1]
                                   ELSE [acc EXCEPT !.false_negatives = @ + 1]
                     ELSE IF block
                          THEN [acc EXCEPT !.false_positives = @ + 1,
                                           !.negative_blocked_ips = @ \cup {ip}]
                          ELSE [acc EXCEPT !.true_negatives = @ + 1]
                ELSE IF labels[i] = 0
                     THEN [acc EXCEPT !.true_negatives = @ + 1]
                     ELSE acc
         IN  ValidateSkipping(ips, labels, prediction, threshold, i + 1,
                              [step EXCEPT !.ip_occurrences = occ])

\* positive_run's loop over the validation rows, from row i on.
RECURSIVE Validate(_, _, _, _, _, _)
Validate(ips, labels, prediction, threshold, i, acc) ==
    IF i > Len(prediction) THEN acc
    ELSE LET ip    == ips[i]
             occ   == IF prediction[i] = 1
                      THEN [acc.ip_occurrences EXCEPT ![ip] = @ + 1]
                      ELSE acc.ip_occurrences
             block == occ[ip] > threshold
             step  ==
                IF prediction[i] = 1
                THEN IF labels[i] = 1
                     THEN IF block THEN [acc EXCEPT !.true_positives = @ + 1]
                                   ELSE [acc EXCEPT !.false_negatives = @ + 1]
                     ELSE IF block
                          THEN [acc EXCEPT !.false_positives = @ + 1,
                                           !.negative_blocked_ips = @ \cup {ip}]
                          ELSE [acc EXCEPT !.true_negatives = @ + 1]
                ELSE IF labels[i] = 0
                     THEN [acc EXCEPT !.true_negatives = @ + 1]
                     ELSE [acc EXCEPT !.false_negatives = @ + 1]
         IN  Validate(ips, labels, prediction, threshold, i + 1,
                      [step EXCEPT !.ip_occurrences = occ])

\* Lines 152-162 of positive_run: the record stored for a run from its
\* tallies; a rate whose denominator is zero raises ZeroDivisionError.
StoredRun(t, negative_unique_ips) ==
    IF t.true_positives + t.false_negatives = 0 \/ t.false_positives + t.true_negatives = 0
    THEN Raised("ZeroDivisionError")
    ELSE Return([total |-> t.true_positives + t.false_positives
                             + t.true_negatives + t.false_negatives,
                 TPR |-> <<t.true_positives, t.true_positives + t.false_negatives>>,
                 FPR |-> <<t.false_positives, t.false_positives + t.true_negatives>>,
                 TNR |-> <<t.true_negatives, t.true_negatives + t.false_positives>>,
                 FNR |-> <<t.false_negatives, t.false_negatives + t.true_positives>>,
                 negative_blocked_ips |-> t.negative_blocked_ips,
                 false_positive_blocked_rate |->
                     <<Cardinality(t.negative_blocked_ips), negative_unique_ips>>])

\* positive_run: the tallies of the validation rows, and the record stored.
PositiveRun(ips, labels, prediction, threshold, negative_unique_ips) ==
    StoredRun(Validate(ips, labels, prediction, threshold, 1,
                       [true_positives |-> 0, false_positives |-> 0,
                        true_negatives |-> 0, false_negatives |-> 0,
                        negative_blocked_ips |-> {}, ip_occurrences |-> NoOccurrences]),
              negative_unique_ips)

\* The sequences that list n different indices of 1..m.
Draws(m, n) ==
    { d \in [1..n -> 1..m] : \A i, j \in 1..n : i # j => d[i] # d[j] }

Pick(seq, d) == [i \in DOMAIN d |-> seq[d[i]]]

Ones(n, v) == [i \in 1..n |-> v]

\* train_test_split(train_size=0.5): the rows left for validation.
ValidationSize(n) == n - (n \div 2)

\* The threshold percentile of the current group of runs (lines 337-340).
ThresholdPct(s) ==
    IF s.dynamic_adjustment THEN DYNAMIC_THRESHOLD_PERCENTILES[s.pct]
    ELSE s.decision_threshold_arg

\* The first run of highest FPR.
WorstFprRun(states) ==
    CHOOSE i \in DOMAIN states :
        /\ \A j \in DOMAIN states :
              states[i].FPR[1] * states[j].FPR[2] >= states[j].FPR[1] * states[i].FPR[2]
        /\ \A j \in DOMAIN states :
              (j < i) => states[j].FPR[1] * states[i].FPR[2] < states[i].FPR[1] * states[j].FPR[2]

\* min(enumerate(fpr_results), key=itemgetter(1))[0]
BestFprRun(states) ==
    CHOOSE i \in DOMAIN states :
        /\ \A j \in DOMAIN states :
              states[i].FPR[1] * states[j].FPR[2] <= states[j].FPR[1] * states[i].FPR[2]
        /\ \A j \in DOMAIN states :
              (j < i) => states[j].FPR[1] * states[i].FPR[2] > states[i].FPR[1] * states[j].FPR[2]

NoStates == [i \in 0..(NUM_RUNS - 1) |-> None]

\* The rows are listed in address order: the split shuffles them anyway.
SortedIps(seq) == \A i, j \in DOMAIN seq : i <= j => seq[i] <= seq[j]

\* No strategy is sweeping.
SdgIdle == sdg = [pc |-> "idle"]
EntropyIdle == eds = [pc |-> "idle"]
LengthIdle == lcs = [pc |-> "idle"]
SweepIdle == SdgIdle /\ EntropyIdle /\ LengthIdle

\* SDGStrategy.run at line 337: the feature rows are extracted, at least one
\* of each class (lines 324-325), and the threshold argument examined
\* (lines 248-253).
SweepStart ==
    \E np \in 1..MaxPositive, nn \in 1..MaxNegative :
       \E pos \in [1..np -> IPs], neg \in [1..nn -> IPs], dt \in ManualThresholds :
          /\ SortedIps(pos) /\ SortedIps(neg)
          /\ sdg = [pc |-> "iterate",
                    positive_ips |-> pos,
                    negative_ips |-> neg,
                    decision_threshold_arg |-> dt.v,
                    dynamic_adjustment |-> ~dt.isint,
                    decision_threshold |-> dt.v,
                    target_ip_occurrences |-> NoOccurrences,
                    negative_unique_ips |-> 0,
                    pct |-> 1,
                    i |-> 0,
                    states |-> NoStates,
                    all_ips |-> << >>,
                    all_labels |-> << >>,
                    pt_validation_ips |-> << >>,
                    pt_validation_labels |-> << >>,
                    prediction |-> << >>,
                    true_positive_rate |-> None,
                    false_positive_rate |-> None,
                    negative_blocked_ips |-> {},
                    result |-> Return(None)]

\* One pass of the inner loop, lines 343-357: redraw and resplit
\* (test_validation_split), set the threshold, train and validate
\* (positive_run).  The resampling, the shuffle of the split and the
\* classifier's predictions are free.
SweepRun ==
    /\ sdg.pc = "iterate"
    /\ LET pl    == Len(sdg.positive_ips)
           nl    == Len(sdg.negative_ips)
           drawn == IF pl >= nl THEN nl ELSE pl
       IN  \E d \in Draws(nl, drawn) :
              /\ pl >= nl => d = [k \in 1..nl |-> k]
              /\ LET negative_ips == Pick(sdg.negative_ips, d)
                     all_ips      == sdg.positive_ips \o negative_ips
                     all_labels   == Ones(pl, 1) \o Ones(drawn, 0)
                     n            == Len(all_ips)
                     occ          == CountIps(sdg.target_ip_occurrences, all_ips)
                     unique       == Cardinality({ negative_ips[k] : k \in DOMAIN negative_ips })
                 IN  \E v \in Draws(n, ValidationSize(n)),
                        prediction \in [1..ValidationSize(n) -> {0, 1}] :
                        LET vips      == Pick(all_ips, v)
                            vlabels   == Pick(all_labels, v)
                            threshold == DecisionThreshold(occ, ThresholdPct(sdg))
                            r  == PositiveRun(vips, vlabels, prediction, threshold, unique)
                            s1 == [sdg EXCEPT !.target_ip_occurrences = occ,
                                              !.negative_unique_ips = unique,
                                              !.all_ips = all_ips,
                                              !.all_labels = all_labels,
                                              !.pt_validation_ips = vips,
                                              !.pt_validation_labels = vlabels,
                                              !.prediction = prediction,
                                              !.decision_threshold = threshold]
                        IN  sdg' = IF r.kind = "raise"
                                   THEN [s1 EXCEPT !.pc = "raised", !.result = r]
                                   ELSE [s1 EXCEPT !.states[sdg.i] = r.value,
                                                   !.i = @ + 1,
                                                   !.pc = IF sdg.i + 1 = NUM_RUNS
                                                          THEN "select" ELSE "iterate"]
    /\ UNCHANGED <<lifecycleVars, trafficVars, eds, lcs>>

\* The pass of the inner loop made first: threshold_pct is the first of the
\* list (or the argument) and i is 0.
SweepFirstRun == sdg.pct = 1 /\ sdg.i = 0 /\ SweepRun

\* Lines 369-404: take the run of lowest FPR as the percentile's result, then
\* stop or move to the next percentile.
SweepSelect ==
    /\ sdg.pc = "select"
    /\ LET best == BestFprRun(sdg.states)
           r    == sdg.states[best]
           s1   == [sdg EXCEPT !.true_positive_rate = r.TPR,
                               !.false_positive_rate = r.FPR,
                               !.negative_blocked_ips = r.negative_blocked_ips]
           stop == \/ ~sdg.dynamic_adjustment
                   \/ BelowTprCriterion(r.TPR)
                   \/ BelowFprCriterion(r.FPR)
                   \/ sdg.pct = Len(DYNAMIC_THRESHOLD_PERCENTILES)
       IN  sdg' = IF stop THEN [s1 EXCEPT !.pc = "finish"]
                  ELSE [s1 EXCEPT !.states = NoStates, !.pct = @ + 1, !.i = 0,
                                  !.pc = "iterate"]
    /\ UNCHANGED <<lifecycleVars, trafficVars, eds, lcs>>

\* Lines 406-413: drop the per-run states and return the rates.
SweepReturn ==
    /\ sdg.pc = "finish"
    /\ sdg' = [sdg EXCEPT !.states = NoStates,
                          !.pc = "done",
                          !.result = Return(<<sdg.true_positive_rate, sdg.false_positive_rate>>)]
    /\ UNCHANGED <<lifecycleVars, trafficVars, eds, lcs>>

\* The sweep's loop with the outcome of a run left open: the tallies of a run
\* depend on the rows, the shuffle of the split and the classifier, so a run
\* may end with any tallies of its validation rows, here MaxTally rows of a
\* class or none.  A false positive puts the row's peer IP among the blocked.
RunTallies ==
    { [true_positives |-> tp, false_negatives |-> p - tp,
       false_positives |-> fp, true_negatives |-> n - fp,
       negative_blocked_ips |-> IF fp > 0 THEN {1} ELSE {}] :
         <<p, n, tp, fp>> \in
            { q \in {0, MaxTally} \X {0, MaxTally} \X (0..MaxTally) \X (0..MaxTally) :
                q[3] <= q[1] /\ q[4] <= q[2] } }

\* SDGStrategy.run at line 337, with two counters beside the instance's
\* fields: the runs made so far and the threshold percentiles of the groups
\* of runs entered so far.
SweepStartCounted ==
    \E dt \in ManualThresholds :
       sdg = [pc |-> "iterate",
              positive_ips |-> <<1>>,
              negative_ips |-> <<1>>,
              decision_threshold_arg |-> dt.v,
              dynamic_adjustment |-> ~dt.isint,
              decision_threshold |-> dt.v,
              target_ip_occurrences |-> NoOccurrences,
              negative_unique_ips |-> 1,
              pct |-> 1,
              i |-> 0,
              states |-> NoStates,
              all_ips |-> << >>,
              all_labels |-> << >>,
              pt_validation_ips |-> << >>,
              pt_validation_labels |-> << >>,
              prediction |-> << >>,
              true_positive_rate |-> None,
              false_positive_rate |-> None,
              negative_blocked_ips |-> {},
              result |-> Return(None),
              runs |-> 0,
              visited |-> << >>]

\* One pass of the inner loop, lines 343-357, ending with the record
\* positive_run stores for some tallies.
SweepRunTallied ==
    /\ sdg.pc = "iterate"
    /\ \E t \in RunTallies :
          LET r  == StoredRun(t, sdg.negative_unique_ips)
              s1 == [sdg EXCEPT !.runs = @ + 1,
                                !.visited = IF sdg.i = 0
                                            THEN Append(@, ThresholdPct(sdg)) ELSE @]
          IN  sdg' = IF r.kind = "raise"
                     THEN [s1 EXCEPT !.pc = "raised", !.result = r]
                     ELSE [s1 EXCEPT !.states[sdg.i] = r.value,
                                     !.i = @ + 1,
                                     !.pc = IF sdg.i + 1 = NUM_RUNS
                                            THEN "select" ELSE "iterate"]
    /\ UNCHANGED <<lifecycleVars, trafficVars, eds, lcs>>

(***************************************************************************)
(* Claims about the lifecycle.                                             *)
(***************************************************************************)
Calls(what) == { i \in DOMAIN strat.calls : strat.calls[i] = what }

PtEmptyAfterFilter ==
    /\ pc \notin {"parse", "filter"}
    /\ Retrieve(env.pt_store, strat.strategic_packet_filter) = 0

NegEmptyAfterFilter ==
    /\ pc \notin {"parse", "filter"}
    /\ env.negative_pcap
    /\ Retrieve(env.neg_store, strat.strategic_packet_filter) = 0

Called(name) == op # << >> /\ op[Len(op)].name = name

\* C4 (as claimed): after the packet arrays have been loaded no step changes
\* any field of a loaded packet record; in particular synchronise leaves the
\* time field of the records passed to it as it was.
C4_LoadedPacketsReadOnly ==
    \A id \in DOMAIN heap0 : heap[id] = heap0[id]

RECURSIVE Flatten(_)
Flatten(windows) ==
    IF windows = << >> THEN << >>
    ELSE Flatten(SubSeq(windows, 1, Len(windows) - 1)) \o windows[Len(windows)]

\* b holds every identity of a exactly once and nothing else (a has no repeats).
IsPermutation(a, b) ==
    /\ Len(a) = Len(b)
    /\ \A i \in DOMAIN a : Cardinality({ j \in DOMAIN b : b[j] = a[i] }) = 1

SortedTimeCall == Called("window_time") /\ op[1].sort /\ packets # << >>

\* t1 - t0 in whole microseconds, over the list the call was given.
Duration == Micros(MaxTimeOf(heap0, packets)) - Micros(MinTime(heap0, packets))

\* C6 (as claimed): for every non-empty P and window length > 0, the windows
\* of window_time(P, window, sort=true) concatenate to a permutation of P,
\* also when the total duration is shorter than the window.
C6_WindowsPermuteAlways ==
    SortedTimeCall =>
        /\ out.kind = "return"
        /\ IsPermutation(packets, Flatten(out.value))

\* C6 (amended): for every non-empty P and window length with t1 - t0 >=
\* window, the windows of window_time(P, window, sort=true) concatenate to a
\* permutation of P; for t1 - t0 < window no window is returned.
C6_WindowsPermute ==
    SortedTimeCall =>
        /\ out.kind = "return"
        /\ Duration >= op[1].window => IsPermutation(packets, Flatten(out.value))
        /\ Duration < op[1].window => out.value = << >>

C6_Witness ==
    /\ SortedTimeCall
    /\ Duration = op[1].window
    /\ Len(packets) = 3
    /\ Len(out.value) = 1
    /\ packets # out.value[1]

\* The shifted timestamp of packet id, in ticks: time - t0.
Shifted(id) == heap0[id].time - Micros(MinTime(heap0, packets)) * TicksPerMicro

Ceil(a, b) == (a + b - 1) \div b

\* Window k (from 0) of the call is the half-open interval that holds x ticks.
Holds(k, x) ==
    /\ k * op[1].window * TicksPerMicro <= x
    /\ x < (k + 1) * op[1].window * TicksPerMicro

\* C7 (as claimed): window_time(P, window, true) returns ceil((t1-t0)/window)
\* windows and every packet lies in the window whose half-open interval
\* holds its shifted timestamp, the packet with the maximum timestamp included.
C7_EveryPacketInItsInterval ==
    SortedTimeCall =>
        /\ out.kind = "return"
        /\ Len(out.value) = Ceil(Duration, op[1].window)
        /\ \A k \in DOMAIN out.value : \A i \in DOMAIN out.value[k] :
              Holds(k - 1, Shifted(out.value[k][i]))

\* C7 (amended): for non-empty P with t1 - t0 >= window, window_time(P,
\* window, true) returns ceil((t1-t0)/window) windows in time order; a packet
\* whose shifted timestamp lies before the end of the last window is in the
\* window whose half-open interval holds it, and a packet at or beyond that
\* end (the latest packets when t1 - t0 is a multiple of the window) is in
\* the last window.  For t1 - t0 < window no window is returned.
C7_IntervalOrLastWindow ==
    SortedTimeCall =>
        /\ out.kind = "return"
        /\ Duration < op[1].window => out.value = << >>
        /\ Duration >= op[1].window =>
              LET n == Ceil(Duration, op[1].window)
              IN  /\ Len(out.value) = n
                  /\ \A k \in DOMAIN out.value : \A i \in DOMAIN out.value[k] :
                        LET x == Shifted(out.value[k][i])
                        IN  IF x < n * op[1].window * TicksPerMicro
                            THEN Holds(k - 1, x)
                            ELSE k = n
                  /\ \A i, j \in DOMAIN Flatten(out.value) :
                        i <= j => heap0[Flatten(out.value)[i]].time
                                    <= heap0[Flatten(out.value)[j]].time

C7_Witness ==
    /\ SortedTimeCall
    /\ Duration = 2 * op[1].window
    /\ Len(out.value) = 2
    /\ \E i \in DOMAIN out.value[2] :
          Shifted(out.value[2][i]) >= 2 * op[1].window * TicksPerMicro
    /\ out.value[1] # << >>

\* C8: for n >= 1 window_fixed(P, n) returns floor(|P| / n) windows, each the
\* next n packets of P in input order, the last |P| mod n packets dropped;
\* for n < 1 it raises the invalid-window error and returns nothing.
C8_FixedWindows ==
    Called("window_fixed") =>
        LET n == op[1].window_size
        IN  IF n >= 1
            THEN /\ out.kind = "return"
                 /\ Len(out.value) = Len(packets) \div n
                 /\ \A k \in DOMAIN out.value :
                       out.value[k] = [i \in 1..n |-> packets[(k - 1) * n + i]]
            ELSE out = Raised("ValueError")

C8_Witness ==
    /\ Called("window_fixed")
    /\ op[1].window_size = 2
    /\ Len(packets) = 3
    /\ out = Return(<< <<1, 2>> >>)

GroupCall == Called("group_by_ip") /\ op[1].clients # << >>

\* The first entry of the clients list that overlaps the packet's src or dst.
FirstClient(id) ==
    LET hits == { i \in DOMAIN op[1].clients :
                    \/ Overlaps(op[1].clients[i], BuildSubnet(heap0[id].src))
                    \/ Overlaps(op[1].clients[i], BuildSubnet(heap0[id].dst)) }
    IN  IF hits = {} THEN 0 ELSE CHOOSE i \in hits : \A j \in hits : i <= j

SrcMatched(id) == Overlaps(op[1].clients[FirstClient(id)], BuildSubnet(heap0[id].src))

\* The identities held by the windows of group k.
InGroup(k) ==
    UNION { { out.value[k][w][i] : i \in DOMAIN out.value[k][w] } : w \in DOMAIN out.value[k] }

\* C9 (as claimed): every group is keyed by (the text of the matching entry
\* of the clients list, the peer address), the peer being dst when src
\* matched and src when dst matched.
C9_KeyedByClientSubnet ==
    GroupCall =>
        \A k \in DOMAIN out.value : \A id \in InGroup(k) :
            /\ FirstClient(id) # 0
            /\ k = <<Str(op[1].clients[FirstClient(id)]),
                     IF SrcMatched(id) THEN heap0[id].dst ELSE heap0[id].src>>

\* C9 (amended): every group is keyed by (the text of the one-host subnet of
\* the packet's own client-side address, the peer address): the client side
\* is src when the first overlapping entry of clients overlaps src, else dst,
\* and the peer is the other end; every overlapping packet's key is a key of
\* the result, so packets of different hosts of one client subnet are filed
\* in different groups.
C9_KeyedByClientHost ==
    GroupCall =>
        /\ \A k \in DOMAIN out.value : \A id \in InGroup(k) :
              /\ FirstClient(id) # 0
              /\ k = IF SrcMatched(id)
                     THEN <<Str(BuildSubnet(heap0[id].src)), heap0[id].dst>>
                     ELSE <<Str(BuildSubnet(heap0[id].dst)), heap0[id].src>>
        /\ \A i \in DOMAIN packets :
              FirstClient(packets[i]) # 0 =>
                 (IF SrcMatched(packets[i])
                  THEN <<Str(BuildSubnet(heap0[packets[i]].src)), heap0[packets[i]].dst>>
                  ELSE <<Str(BuildSubnet(heap0[packets[i]].dst)), heap0[packets[i]].src>>)
                    \in DOMAIN out.value

C9_Witness ==
    /\ GroupCall
    /\ op[1].clients = <<[base |-> 0, size |-> 2]>>
    /\ op[1].window_size = 1
    /\ Len(packets) = 2
    /\ heap0[1].src = 0 /\ heap0[1].dst = 2
    /\ heap0[2].src = 1 /\ heap0[2].dst = 2
    /\ InGroup(<<Str(BuildSubnet(0)), 2>>) = {1}
    /\ InGroup(<<Str(BuildSubnet(1)), 2>>) = {2}

AllReturned == \A i \in DOMAIN op : op[i].name = "synchronise" /\ op[i].target.isfloat

\* C10 (as claimed): re-anchoring is idempotent: after synchronise(P, t) the first packet
\* of the returned list has time t and every pairwise time difference is as
\* before, and synchronise(synchronise(P, t), t2) leaves the same list and
\* the same packet times as synchronise(P, t2).
C10_Reanchor ==
    (op # << >> /\ AllReturned /\ packets # << >>) =>
        LET last == op[Len(op)]
            ids  == [i \in DOMAIN heap0 |-> i]
            sort == \E i \in DOMAIN op : op[i].sort
        IN  /\ out.kind = "return"
            /\ heap[out.value[1]].time = last.target.v
            /\ \A i, j \in DOMAIN heap :
                  heap[i].time - heap[j].time = heap0[i].time - heap0[j].time
            /\ heap = SynchroniseHeap(heap0, ids, last.target, sort)
            /\ out = SynchroniseReturn(heap0, ids, last.target, sort)

(***************************************************************************)
(* Claims about get_window_stats.                                          *)
(***************************************************************************)
StatsCall == Called("window_stats") /\ op[1].client_ips # << >>

PacketsUp == OfDirection(heap0, packets, op[1].client_ips, "src")
PacketsDown == OfDirection(heap0, packets, op[1].client_ips, "dst")

\* C11 (as claimed): for each direction alike, when the direction holds 0 or
\* 1 packets every feature of that direction has its default value: a lone
\* packet's payload, length and flags never show in the direction's features.
C11_LonePacketDefaults ==
    StatsCall =>
        /\ Len(PacketsUp) <= 1 =>
              (out.kind = "return" => out.value.stats.up = DefaultStats(op[1].feature_selection))
        /\ Len(PacketsDown) <= 1 =>
              (out.kind = "return" => out.value.stats.down = DefaultStats(op[1].feature_selection))
        /\ (Len(PacketsUp) <= 1 /\ Len(PacketsDown) <= 1) => out.kind = "return"

\* The sum of the counts of a direction's bins, and what the payloads longer
\* than max_tcp_len add to the last length bin.
BinSum(b) == SumSeq([i \in DOMAIN b |-> b[i][1]])
LsoCounts(dir) ==
    SumSeq([i \in DOMAIN dir |->
               IF heap0[dir[i]].tcp_info # NoTcpInfo
                  /\ heap0[dir[i]].tcp_info.payload.len > MaxTcpLen
               THEN heap0[dir[i]].tcp_info.payload.len \div MaxTcpLen ELSE 0])
StatsReturned == StatsCall /\ out.kind = "return"

LengthsUp ==
    DirectionTally(heap0, PacketsUp, LeastUp, op[1].feature_selection, "dst", "src").payload_lengths
LengthsDown ==
    DirectionTally(heap0, PacketsDown, LeastDown, op[1].feature_selection, "src", "dst").payload_lengths

\* The k-th length of s when its distinct lengths are put rarest first and,
\* among lengths that occur equally often, lowest value first; 0 when fewer
\* than k distinct lengths occur.
RarestLowest(s, k) ==
    LET values == { s[i] : i \in DOMAIN s }
        before(v) == { w \in values :
                         \/ Occurrences(s, w) < Occurrences(s, v)
                         \/ Occurrences(s, w) = Occurrences(s, v) /\ w < v }
    IN  IF Cardinality(values) < k THEN <<0, 1>>
        ELSE <<CHOOSE v \in values : Cardinality(before(v)) = k - 1, 1>>

\* The same with the length that stands first in the window taken first among
\* lengths that occur equally often.
RarestEarliest(s, k) ==
    LET d == Distinct(s)
        before(i) == { j \in DOMAIN d :
                         \/ Occurrences(s, d[j]) < Occurrences(s, d[i])
                         \/ Occurrences(s, d[j]) = Occurrences(s, d[i]) /\ j < i }
    IN  IF Len(d) < k THEN <<0, 1>>
        ELSE <<d[CHOOSE i \in DOMAIN d : Cardinality(before(i)) = k - 1], 1>>

\* C29 (as claimed): with tcp_len selected, for a direction with at least 2
\* packets top1_tcp_len and top2_tcp_len are the rarest and the second rarest
\* payload length of the direction, the lowest length value first among
\* lengths that occur equally often whatever their order in the window, and
\* top2_tcp_len is 0 when only one distinct length occurs.
C29_RarestLowestFirst ==
    (StatsReturned /\ op[1].feature_selection.tcp_len) =>
        /\ Len(PacketsUp) >= 2 =>
              /\ out.value.stats.up.top1_tcp_len = RarestLowest(LengthsUp, 1)
              /\ out.value.stats.up.top2_tcp_len = RarestLowest(LengthsUp, 2)
        /\ Len(PacketsDown) >= 2 =>
              /\ out.value.stats.down.top1_tcp_len = RarestLowest(LengthsDown, 1)
              /\ out.value.stats.down.top2_tcp_len = RarestLowest(LengthsDown, 2)

\* What the code does hold to: rarest first, and among lengths that occur
\* equally often the one that stands first in the window.
TopLengthsRarestEarliest ==
    (StatsReturned /\ op[1].feature_selection.tcp_len) =>
        /\ Len(PacketsUp) >= 2 =>
              /\ out.value.stats.up.top1_tcp_len = RarestEarliest(LengthsUp, 1)
              /\ out.value.stats.up.top2_tcp_len = RarestEarliest(LengthsUp, 2)
        /\ Len(PacketsDown) >= 2 =>
              /\ out.value.stats.down.top1_tcp_len = RarestEarliest(LengthsDown, 1)
              /\ out.value.stats.down.top2_tcp_len = RarestEarliest(LengthsDown, 2)

(***************************************************************************)
(* Claims about ordered_tcp_payload_length_frequency.                      *)
(***************************************************************************)
ClusterCall == Called("cluster") /\ out.kind = "return"

\* The payload lengths of the packets admitted to the clustering.
AdmittedLengths ==
    { heap0[i].tcp_info.payload.len :
        i \in { k \in DOMAIN heap0 :
                  /\ heap0[k].tcp_info # NoTcpInfo
                  /\ op[1].tls_only => heap0[k].tls_info # NoTlsInfo
                  /\ heap0[k].tcp_info.payload.len <= MTU_FRAME_AVOIDANCE_THRESHOLD_CLUSTERING } }

\* C13: the clusters returned are pairwise disjoint and their union is
\* exactly the set of payload lengths of the admitted packets.
C13_ClustersPartitionLengths ==
    ClusterCall =>
        /\ \A i, j \in DOMAIN out.value : i # j => out.value[i] \cap out.value[j] = {}
        /\ UNION { out.value[i] : i \in DOMAIN out.value } = AdmittedLengths

\* Two admitted lengths in two clusters, with a packet left out of the clustering.
C13_Witness ==
    /\ ClusterCall
    /\ Len(out.value) = 2
    /\ Cardinality(AdmittedLengths) = 2
    /\ \E i \in DOMAIN heap0 : heap0[i].tcp_info = NoTcpInfo

\* C28 (as claimed): a payload length enters the clustering only if it is
\* strictly below the MTU avoidance threshold, a length equal to the
\* threshold being excluded like every longer one, and under tls_only only
\* if its packet has TLS info.
C28_AdmitsBelowThreshold ==
    ClusterCall =>
        \A i \in DOMAIN out.value : \A x \in out.value[i] :
            /\ x < MTU_FRAME_AVOIDANCE_THRESHOLD_CLUSTERING
            /\ \E k \in DOMAIN heap0 :
                  /\ heap0[k].tcp_info # NoTcpInfo
                  /\ heap0[k].tcp_info.payload.len = x
                  /\ op[1].tls_only => heap0[k].tls_info # NoTlsInfo

(***************************************************************************)
(* Claims about the entropy strategy.                                      *)
(***************************************************************************)
EntropyReturned == eds.pc = "done" /\ eds.result.kind = "return"

\* The lowest FPR and the highest TPR over the swept configurations.
MinFpr == Lookup(eds.FPR, FirstBest(eds.FPR, FALSE))
MaxTpr == Lookup(eds.TPR, FirstBest(eds.TPR, TRUE))

\* The scores run_strategy computed, as costs: the higher the score, the
\* lower the cost.
ScoredCost(k) == AverageCosts(eds.TPR, eds.FPR)[k]
ScoredFpCost(k) ==
    FalsePositiveCost(eds.FPR, FalsePositiveAnchor(eds.TPR, eds.FPR), eds.TPR[k][1])
TprOf(k) == eds.TPR[k][2]
FprOf(k) == Lookup(eds.FPR, eds.TPR[k][1])
PenaltyOf(k) == ConfigSpecificPenalisation(eds, eds.TPR[k][1])

\* C14 (as claimed): of two configurations with equal penalty and equal TPR
\* the one whose FPR is no farther from the minimum FPR scores at least as
\* high, and likewise for the distance of the TPR from the maximum TPR at
\* equal FPR; a configuration of minimum FPR has the highest false positive
\* score.
C14_ScoreFallsWithDistance ==
    EntropyReturned =>
        \A i, j \in DOMAIN eds.TPR :
            /\ ( /\ PenaltyOf(i) = PenaltyOf(j)
                 /\ RateEq(TprOf(i), TprOf(j))
                 /\ ~RateLess(RateDiff(FprOf(j), MinFpr), RateDiff(FprOf(i), MinFpr)) )
                  => ~RateLess(ScoredCost(j), ScoredCost(i))
            /\ ( /\ PenaltyOf(i) = PenaltyOf(j)
                 /\ RateEq(FprOf(i), FprOf(j))
                 /\ ~RateLess(RateDiff(TprOf(j), MaxTpr), RateDiff(TprOf(i), MaxTpr)) )
                  => ~RateLess(ScoredCost(j), ScoredCost(i))
            /\ RateEq(FprOf(i), MinFpr) => ~RateLess(ScoredFpCost(j), ScoredFpCost(i))

\* The score of the k-th configuration as the claim defines it, as a cost:
\* score_tp from the distance to the highest TPR, score_fp from the distance
\* to the lowest FPR, equal weights.
ClaimedCost(k) ==
    AverageCost(Log1pArg(RateDiff(MaxTpr, TprOf(k))), Log1pArg(RateDiff(MinFpr, FprOf(k))))

\* S of configuration k is above S of configuration b whenever k costs no
\* more and is penalised no more, one of the two strictly; the two are equal
\* when cost and penalty are.
HigherS(k, b) ==
    /\ ~RateLess(ClaimedCost(b), ClaimedCost(k))
    /\ PenaltyOf(k) <= PenaltyOf(b)
    /\ RateLess(ClaimedCost(k), ClaimedCost(b)) \/ PenaltyOf(k) < PenaltyOf(b)
EqualS(k, b) == RateEq(ClaimedCost(k), ClaimedCost(b)) /\ PenaltyOf(k) = PenaltyOf(b)

\* Natural order of the configuration tuples.
TupleLess(a, b) ==
    \E i \in 1..3 : a[i] < b[i] /\ \A j \in 1..(i - 1) : a[j] = b[j]

BestIndex == CHOOSE k \in DOMAIN eds.TPR : eds.TPR[k][1] = eds.best_config[1]

\* C15 (as claimed): the best configuration maximises
\* S(c) = (1-w) score_tp(c) + w score_fp(c) - config_specific_penalisation(c),
\* w = 0.5, over the swept configurations; of those with equal S it has the
\* lowest FPR, and of those still tied the smallest tuple.
C15_BestMaximisesS ==
    EntropyReturned =>
        \A k \in DOMAIN eds.TPR :
            /\ ~HigherS(k, BestIndex)
            /\ EqualS(k, BestIndex) =>
                  /\ ~RateLess(FprOf(k), FprOf(BestIndex))
                  /\ RateEq(FprOf(k), FprOf(BestIndex))
                        => ~TupleLess(eds.TPR[k][1], eds.best_config[1])

EntropySwept == eds.pc = "done" /\ Len(eds.FPR) = Len(SweptConfigs)

\* What the claim calls examined, and classified positive, for a trace t
\* under a configuration (block size, p-value threshold, criterion).
ClaimExamined(t, config) ==
    /\ t.tcp_info.payload.len >= eds.protocol_min_length
    /\ t.tcp_info.payload.len >= config[1]
ClaimPositive(t, config) ==
    /\ ClaimExamined(t, config)
    /\ Cardinality({ i \in 1..3 : t.tcp_info.payload.p[i] >= config[2] }) >= config[3]

PositivesOf(traces, config) == { i \in DOMAIN traces : ClaimPositive(traces[i], config) }
ExaminedOf(traces, config) == { i \in DOMAIN traces : ClaimExamined(traces[i], config) }

ClaimedConfigs == {16, 32, 64, 128} \X {10, 20} \X {1, 2, 3}

KeysOf(d) == { d[i][1] : i \in DOMAIN d }

\* C27 (as claimed): after the sweep the state holds a TPR entry and an FPR
\* entry for the same configurations, all 24 of them, also when for some
\* block size no positive packet is long enough to be examined, so the
\* selection never reads a missing entry.
C27_SameConfigKeys ==
    EntropySwept =>
        /\ KeysOf(eds.TPR) = ClaimedConfigs
        /\ KeysOf(eds.FPR) = ClaimedConfigs
        /\ eds.result.kind = "return"

\* The traces of a list that carry the info of a field.
Carrying(traces, field, none) == SelectSeq(traces, LAMBDA t : t[field] # none)

\* At least 10% of the loaded positive traces carry the info of a field.
TenthOfPositives(field, none) ==
    10 * Len(Carrying(eds.loaded_pt, field, none)) >= Len(eds.loaded_pt)

\* The packets carrying a field's info are all retained in a list, or all
\* excluded from it.
RetainedIff(keep, loaded, traces, field, none) ==
    Carrying(traces, field, none) = IF keep THEN Carrying(loaded, field, none) ELSE << >>

\* C26 (as claimed): TLS packets are retained iff at least 10% of the loaded
\* positive traces carry TLS info, HTTP packets iff at least 10% of them
\* carry HTTP info, each decided on the same positive population without
\* regard to the other, and the negative traces get the same decisions.
C26_InclusionDecidedAlone ==
    eds.pc = "done" =>
        /\ RetainedIff(TenthOfPositives("tls_info", NoTlsInfo),
                       eds.loaded_pt, eds.pt_traces, "tls_info", NoTlsInfo)
        /\ RetainedIff(TenthOfPositives("tls_info", NoTlsInfo),
                       eds.loaded_neg, eds.neg_traces, "tls_info", NoTlsInfo)
        /\ RetainedIff(TenthOfPositives("http_info", NoHttpInfo),
                       eds.loaded_pt, eds.pt_traces, "http_info", NoHttpInfo)
        /\ RetainedIff(TenthOfPositives("http_info", NoHttpInfo),
                       eds.loaded_neg, eds.neg_traces, "http_info", NoHttpInfo)

(***************************************************************************)
(* Claims about the length clustering strategy.                            *)
(***************************************************************************)
LengthReturned == lcs.pc = "done" /\ lcs.result.kind = "return"

\* The union of the k most populous clusters found at bandwidth bw.
TopClusters(bw, k) ==
    UNION { lcs.most_frequent[bw][c] : c \in 1..k }

PositivesIn(cluster) ==
    Cardinality({ i \in DOMAIN lcs.pt_traces : PayloadLen(lcs.pt_traces[i]) \in cluster })

\* A positive packet whose length is in the second cluster and not in the top one.
InSecondClusterOnly(bw) ==
    \E i \in DOMAIN lcs.pt_traces :
        /\ PayloadLen(lcs.pt_traces[i]) \in lcs.most_frequent[bw][2]
        /\ PayloadLen(lcs.pt_traces[i]) \notin lcs.most_frequent[bw][1]

\* C17 (as claimed): for every bandwidth and k in {1, 2}, TPR[(bandwidth, k)]
\* is the number of positive packets whose payload length lies in the union of
\* the k most populous clusters over the number of positive packets, so a
\* packet in the second cluster only makes TPR[(bandwidth, 2)] the greater.
C17_TprCountsTopClusters ==
    LengthReturned =>
        \A i \in DOMAIN MEANSHIFT_BWS : \A k \in {1, 2} :
            LET bw == MEANSHIFT_BWS[i]
            IN  /\ RateEq(lcs.TPR[<<bw, k>>],
                          <<PositivesIn(TopClusters(bw, k)), Len(lcs.pt_traces)>>)
                /\ InSecondClusterOnly(bw) => RateLess(lcs.TPR[<<bw, 1>>], lcs.TPR[<<bw, 2>>])

\* The lengths the fit of positive_run was given.
FittedLengths == CollectLengths(lcs.pt_traces, lcs.tls_mode = "only")

\* Every positive payload length is clustered and all lie within the
\* bandwidth of each other: one cluster.
SingleClusterAt(bw) ==
    /\ FittedLengths # << >>
    /\ Len(FittedLengths) = Len(lcs.pt_traces)
    /\ \A i, j \in DOMAIN FittedLengths : Abs(FittedLengths[i] - FittedLengths[j]) <= bw

NegativesIn(cluster) ==
    Cardinality({ i \in DOMAIN lcs.neg_traces : PayloadLen(lcs.neg_traces[i]) \in cluster })

\* C18 (as claimed): when all positive payload lengths fall into a single
\* cluster at a bandwidth, positive_run completes without error and records
\* TPR = 1.0 for the bandwidth, and negative_run records FPR = 0.0 when no
\* negative payload length lies in the cluster.
C18_SingleClusterRuns ==
    lcs.pc = "done" =>
        \A i \in DOMAIN MEANSHIFT_BWS :
            LET bw == MEANSHIFT_BWS[i]
                cluster == { FittedLengths[j] : j \in DOMAIN FittedLengths }
            IN  SingleClusterAt(bw) =>
                   /\ lcs.result.kind = "return"
                   /\ RateEq(lcs.TPR[<<bw, 1>>], <<1, 1>>)
                   /\ RateEq(lcs.TPR[<<bw, 2>>], <<1, 1>>)
                   /\ NegativesIn(cluster) = 0 => lcs.FPR[<<bw, 1>>][1] = 0

\* The configurations whose TPR is at least 0.40.
Eligible == { c \in LengthConfigs : 100 * lcs.TPR[c][1] >= 40 * lcs.TPR[c][2] }

C20_TlsModeFiltersBoth ==
    lcs.pc = "done" =>
        /\ lcs.tls_mode = "only" =>
              /\ \A i \in DOMAIN lcs.pt_traces : lcs.pt_traces[i].tls_info # NoTlsInfo
              /\ \A i \in DOMAIN lcs.neg_traces : lcs.neg_traces[i].tls_info # NoTlsInfo
        /\ lcs.tls_mode = "none" =>
              /\ \A i \in DOMAIN lcs.pt_traces : lcs.pt_traces[i].tls_info = NoTlsInfo
              /\ \A i \in DOMAIN lcs.neg_traces : lcs.neg_traces[i].tls_info = NoTlsInfo

(***************************************************************************)
(* Claims about the SDG sweep.                                             *)
(***************************************************************************)
\* The record positive_run stores for the last split and predictions when no
\* iteration has run before it: the occurrences hold this split's rows only.
AsFirstIteration ==
    PositiveRun(sdg.pt_validation_ips, sdg.pt_validation_labels, sdg.prediction,
                DecisionThreshold(CountIps(NoOccurrences, sdg.all_ips), ThresholdPct(sdg)),
                sdg.negative_unique_ips).value

\* C5 (as claimed): sweep iterations are independent: the TPR and FPR
\* recorded for a percentile, split and predictions are the same whatever
\* iterations were executed before, so they are what the same iteration
\* records when it is the first to run.
C5_IterationsIndependent ==
    (sdg.pc \in {"iterate", "select"} /\ sdg.i > 0) =>
        /\ sdg.states[sdg.i - 1].TPR = AsFirstIteration.TPR
        /\ sdg.states[sdg.i - 1].FPR = AsFirstIteration.FPR

\* A split has been validated: the rows, labels and predictions of the last
\* call of positive_run are held.
Validated == sdg.pc # "idle" /\ sdg.prediction # << >>

\* The tallies positive_run's loop makes on the last validation set.
Tallied ==
    Validate(sdg.pt_validation_ips, sdg.pt_validation_labels, sdg.prediction,
             sdg.decision_threshold, 1,
             [true_positives |-> 0, false_positives |-> 0,
              true_negatives |-> 0, false_negatives |-> 0,
              negative_blocked_ips |-> {}, ip_occurrences |-> NoOccurrences])

ValidationRows == DOMAIN sdg.prediction

\* Positive predictions an IP receives over the whole validation set.
TotalPredicted(ip) ==
    Cardinality({ k \in ValidationRows :
                    sdg.prediction[k] = 1 /\ sdg.pt_validation_ips[k] = ip })

BlockedByTotal(ip) == TotalPredicted(ip) > sdg.decision_threshold

\* Rows of a label that are predicted positive on a blocked IP.
RowsBlocked(label) ==
    Cardinality({ k \in ValidationRows :
                    /\ sdg.pt_validation_labels[k] = label
                    /\ sdg.prediction[k] = 1
                    /\ BlockedByTotal(sdg.pt_validation_ips[k]) })

RowsOfLabel(label) ==
    Cardinality({ k \in ValidationRows : sdg.pt_validation_labels[k] = label })

\* C21 (as claimed): an IP is blocked iff its positive predictions over the
\* whole validation set exceed the threshold, and every predicted-positive
\* row of a blocked IP is a true or false positive, every other row a false
\* or true negative, whatever the order of the rows.
C21_BlockedByTotal ==
    Validated =>
        /\ Tallied.true_positives = RowsBlocked(1)
        /\ Tallied.false_positives = RowsBlocked(0)
        /\ Tallied.false_negatives = RowsOfLabel(1) - RowsBlocked(1)
        /\ Tallied.true_negatives = RowsOfLabel(0) - RowsBlocked(0)

\* Per-peer-IP numbers of positive predictions on the last validation set.
PredictedCounts == [ip \in IPs |-> TotalPredicted(ip)]

ValidationIps == { sdg.pt_validation_ips[k] : k \in ValidationRows }

\* The threshold the current percentile gives on those counts, over the IPs
\* that received a positive prediction or over every IP of the validation set.
ThresholdsOfPredictedCounts ==
    { FloorPercentile(SortedValues(PredictedCounts, ips), ThresholdPct(sdg)) :
        ips \in { s \in {{ ip \in IPs : PredictedCounts[ip] > 0 }, ValidationIps} : s # {} } }

\* The threshold the current percentile gives on the occurrences of this
\* split alone.
ThresholdOfThisSplit ==
    DecisionThreshold(CountIps(NoOccurrences, sdg.all_ips), ThresholdPct(sdg))

\* C22 (as claimed): the threshold of a run is the floor of the percentile of
\* the per-peer-IP numbers of positive predictions on that run's validation
\* set, and does not depend on the splits made earlier in the sweep.
C22_ThresholdFromPredictedCounts ==
    (Validated /\ sdg.dynamic_adjustment) =>
        /\ sdg.decision_threshold \in ThresholdsOfPredictedCounts
        /\ sdg.decision_threshold = ThresholdOfThisSplit

\* A sweep under dynamic adjustment in which no run has raised.
Sweeping == sdg.pc \in {"iterate", "select", "finish", "done"} /\ sdg.dynamic_adjustment

\* The percentiles visited so far are the first of the list, in its order.
VisitedInOrder ==
    /\ Len(sdg.visited) <= Len(DYNAMIC_THRESHOLD_PERCENTILES)
    /\ \A k \in DOMAIN sdg.visited : sdg.visited[k] = DYNAMIC_THRESHOLD_PERCENTILES[k]

\* Every percentile left behind has had NUM_RUNS runs, the current one sdg.i.
RunsPerPercentile ==
    /\ sdg.pc = "iterate" =>
          /\ sdg.i < NUM_RUNS
          /\ sdg.runs = NUM_RUNS * Len(sdg.visited) - (IF sdg.i = 0 THEN 0 ELSE NUM_RUNS - sdg.i)
    /\ sdg.pc \in {"select", "finish", "done"} =>
          /\ sdg.visited # << >>
          /\ sdg.runs = NUM_RUNS * Len(sdg.visited)

\* The run taken as the percentile's result is one of lowest FPR.
LowestFprTaken ==
    \E b \in DOMAIN sdg.states :
       /\ \A j \in DOMAIN sdg.states :
             ~RateLess(sdg.states[j].FPR, sdg.states[b].FPR)
       /\ sdg'.true_positive_rate = sdg.states[b].TPR
       /\ sdg'.false_positive_rate = sdg.states[b].FPR

\* The sweep stops right after a percentile whose result is below a
\* criterion, or after the last percentile; otherwise it goes on to the
\* next percentile with no run made yet.
StopsAtCriterion ==
    LET stop == \/ BelowTprCriterion(sdg'.true_positive_rate)
                \/ BelowFprCriterion(sdg'.false_positive_rate)
                \/ sdg.visited[Len(sdg.visited)] = 90
    IN  /\ stop => sdg'.pc = "finish"
        /\ ~stop => sdg'.pc = "iterate" /\ sdg'.i = 0 /\ sdg'.pct = sdg.pct + 1

\* The rates reported are those of the last percentile's result.
ReportsLastResult ==
    sdg.pc = "done" =>
        sdg.result = Return(<<sdg.true_positive_rate, sdg.false_positive_rate>>)

SweepEnded == sdg.pc \in {"done", "raised"}

RowsLabelled(label) ==
    Cardinality({ k \in DOMAIN sdg.all_labels : sdg.all_labels[k] = label })

\* C24 (as claimed): before every split the larger class is downsampled to
\* the size of the smaller, so the combined set has equally many rows
\* labelled 1 and 0, and the label and peer-IP lists have one entry per row.
C24_ClassesBalanced ==
    (sdg.pc # "idle" /\ sdg.all_ips # << >>) =>
        /\ Len(sdg.all_labels) = Len(sdg.all_ips)
        /\ RowsLabelled(1) = RowsLabelled(0)
        /\ RowsLabelled(1) = Min(Len(sdg.positive_ips), Len(sdg.negative_ips))

\* C25 (as claimed): under an integer decision_threshold there is one group
\* of NUM_RUNS runs, and in each of its runs the threshold the per-IP counts
\* are compared with is the decision_threshold given.
C25_ManualThresholdUsed ==
    (sdg.pc # "idle" /\ ~sdg.dynamic_adjustment) =>
        /\ sdg.pct = 1
        /\ sdg.i <= NUM_RUNS
        /\ sdg.decision_threshold = sdg.decision_threshold_arg

\* Positive predictions an IP has received up to and including row k.
PredictedUpTo(ip, k) ==
    Cardinality({ j \in 1..k : sdg.prediction[j] = 1 /\ sdg.pt_validation_ips[j] = ip })

\* Row k is truly negative and was counted as a false positive.
CountedFalsePositive(k) ==
    /\ sdg.pt_validation_labels[k] = 0
    /\ sdg.prediction[k] = 1
    /\ PredictedUpTo(sdg.pt_validation_ips[k], k) > sdg.decision_threshold

\* The last run returned, and its record is still held.
RunStored == Validated /\ sdg.pc \in {"iterate", "select"} /\ sdg.i > 0

\* C30: every validation row is counted in exactly one of the four tallies:
\* their sum is the number of validation rows, true positives and false
\* negatives make up the truly positive rows, false positives and true
\* negatives the truly negative ones; and the falsely blocked IPs recorded
\* are peer IPs of truly negative rows that were counted as false positives.
C30_RowsCountedOnce ==
    /\ Validated =>
          /\ Tallied.true_positives + Tallied.false_positives
               + Tallied.true_negatives + Tallied.false_negatives = Len(sdg.prediction)
          /\ Tallied.true_positives + Tallied.false_negatives = RowsOfLabel(1)
          /\ Tallied.false_positives + Tallied.true_negatives = RowsOfLabel(0)
          /\ \A ip \in Tallied.negative_blocked_ips :
                \E k \in ValidationRows :
                   sdg.pt_validation_ips[k] = ip /\ CountedFalsePositive(k)
    /\ RunStored =>
          /\ sdg.states[sdg.i - 1].total = Len(sdg.prediction)
          /\ sdg.states[sdg.i - 1].TPR[2] = RowsOfLabel(1)
          /\ sdg.states[sdg.i - 1].FPR[2] = RowsOfLabel(0)
          /\ sdg.states[sdg.i - 1].negative_blocked_ips = Tallied.negative_blocked_ips

\* A run has been stored with a false positive, a falsely blocked IP and a
\* false negative among its tallies.
C30_Witness ==
    /\ RunStored
    /\ Tallied.false_positives > 0
    /\ Tallied.false_negatives > 0
    /\ sdg.states[sdg.i - 1].negative_blocked_ips # {}

\* DetectionStrategy.run on a fresh strategy.
Init == LifecycleStart /\ TrafficIdle /\ SweepIdle

Next == LifecycleNext

Spec == Init /\ [][Next]_vars

\* The windowing functions on a packet list.
InitWindow == TimedInit(MaxLen) /\ LifecycleIdle /\ SweepIdle

NextWindow == WindowFixed \/ WindowTime

SpecWindow == InitWindow /\ [][NextWindow]_vars

\* synchronise_packets, called up to MaxSyncs times on a loaded list.
InitSync ==
    /\ TimedInit(MaxSyncLen)
    /\ \A id \in DOMAIN heap : FloatOf(heap[id].time) = heap[id].time
    /\ LifecycleIdle
    /\ SweepIdle

NextSync == Synchronise

SpecSync == InitSync /\ [][NextSync]_vars

\* group_packets_by_ip_fixed_size on a packet list.
InitGroup == AddressedInit /\ LifecycleIdle /\ SweepIdle

NextGroup == GroupByIp

SpecGroup == InitGroup /\ [][NextGroup]_vars

\* The SDG strategy's percentile sweep.
InitSweep == SweepStart /\ EntropyIdle /\ LengthIdle /\ LifecycleIdle /\ TrafficIdle

NextSweep == SweepRun \/ SweepSelect \/ SweepReturn

SpecSweep == InitSweep /\ [][NextSweep]_vars

\* The first train/validate run of a sweep: one split and one call of
\* positive_run.
InitRun == InitSweep

NextRun == SweepFirstRun

SpecRun == InitRun /\ [][NextRun]_vars

\* The SDG strategy's percentile sweep, with the runs counted.  The loop has
\* no wait: a sweep that can take a step takes it.
InitCounted == SweepStartCounted /\ EntropyIdle /\ LengthIdle /\ LifecycleIdle /\ TrafficIdle

NextCounted == SweepRunTallied \/ SweepSelect \/ SweepReturn

SpecCounted == InitCounted /\ [][NextCounted]_vars /\ WF_vars(NextCounted)

\* get_window_stats on a window.
InitStats == WindowInit /\ LifecycleIdle /\ SweepIdle

NextStats == WindowStats

SpecStats == InitStats /\ [][NextStats]_vars

\* ordered_tcp_payload_length_frequency on a packet list.
InitCluster == ClusterInit /\ LifecycleIdle /\ SweepIdle
NextCluster == ClusterLengths
SpecCluster == InitCluster /\ [][NextCluster]_vars

\* EntropyStrategy.run_strategy on loaded traces.
InitEntropy == EntropyStart /\ SdgIdle /\ LengthIdle /\ LifecycleIdle /\ TrafficIdle
NextEntropy == EntropyRun
SpecEntropy == InitEntropy /\ [][NextEntropy]_vars

\* EntropyStrategy.run_strategy on traces of mixed TLS and HTTP info.
InitPolicy == PolicyStart /\ SdgIdle /\ LengthIdle /\ LifecycleIdle /\ TrafficIdle
NextPolicy == EntropyRun
SpecPolicy == InitPolicy /\ [][NextPolicy]_vars

\* LengthClusteringStrategy.run_strategy on loaded traces.
InitLength == LengthStart /\ SdgIdle /\ EntropyIdle /\ LifecycleIdle /\ TrafficIdle
NextLength == LengthRun
SpecLength == InitLength /\ [][NextLength]_vars

====
